---- MODULE Spec2Model ----
(***************************************************************************)
(* A model of the evaluation and comparison engine of PBT                  *)
(* (src/pbt/core/evaluator.py, src/pbt/core/prompt_evaluator.py).          *)
(*                                                                         *)
(* Python computes pass rates, average scores and their differences in     *)
(* IEEE-754 binary64.  The thresholds of the regression policy are         *)
(* compared against such values, so the arithmetic is modelled exactly:    *)
(* a float is a sign s, an exponent e and a 53-bit significand m (a        *)
(* natural number held as a little-endian sequence of 14-bit limbs), of    *)
(* value s * m * 2^(e-52), and every operation rounds to nearest, ties to  *)
(* even.  The values of the model stay far from overflow and underflow.    *)
(***************************************************************************)
EXTENDS Integers, Sequences, FiniteSets, TLC

(***************************************************************************)
(* Bounds of the model.                                                    *)
(***************************************************************************)
MaxTests == 3

(***************************************************************************)
(* Natural numbers of any size, as sequences of limbs.                     *)
(***************************************************************************)
LimbBits == 14

Base == 16384

RECURSIVE Pow2(_)
Pow2(k) == IF k = 0 THEN 1 ELSE 2 * Pow2(k - 1)

RECURSIVE IntBitLen(_)
IntBitLen(n) == IF n = 0 THEN 0 ELSE 1 + IntBitLen(n \div 2)

Limb(a, i) == IF i <= Len(a) THEN a[i] ELSE 0

RECURSIVE NNorm(_)
NNorm(a) ==
    IF a = <<>> THEN <<>>
    ELSE IF a[Len(a)] # 0 THEN a ELSE NNorm(SubSeq(a, 1, Len(a) - 1))

NFromInt(n) == NNorm(<<n % Base, (n \div Base) % Base, n \div (Base * Base)>>)

RECURSIVE NAddRec(_, _, _, _)
NAddRec(a, b, i, c) ==
    IF i > Len(a) /\ i > Len(b) THEN (IF c = 0 THEN <<>> ELSE <<c>>)
    ELSE LET t == Limb(a, i) + Limb(b, i) + c
         IN  <<t % Base>> \o NAddRec(a, b, i + 1, t \div Base)

NAdd(a, b) == NAddRec(a, b, 1, 0)

\* a - b, for a >= b
RECURSIVE NSubRec(_, _, _, _)
NSubRec(a, b, i, c) ==
    IF i > Len(a) THEN <<>>
    ELSE LET t == a[i] - Limb(b, i) - c
         IN  IF t < 0 THEN <<t + Base>> \o NSubRec(a, b, i + 1, 1)
                      ELSE <<t>> \o NSubRec(a, b, i + 1, 0)

NSub(a, b) == NNorm(NSubRec(a, b, 1, 0))

NLess(a, b) ==
    \/ Len(a) < Len(b)
    \/ /\ Len(a) = Len(b)
       /\ \E i \in 1..Len(a) : /\ a[i] < b[i]
                               /\ \A j \in (i + 1)..Len(a) : a[j] = b[j]

\* a * k, for 0 <= k < 2^16
RECURSIVE NMulSmallRec(_, _, _, _)
NMulSmallRec(a, k, i, c) ==
    IF i > Len(a) THEN (IF c = 0 THEN <<>> ELSE <<c % Base, c \div Base>>)
    ELSE LET t == a[i] * k + c
         IN  <<t % Base>> \o NMulSmallRec(a, k, i + 1, t \div Base)

NMulSmall(a, k) == NNorm(NMulSmallRec(a, k, 1, 0))

NShl(a, k) ==
    IF a = <<>> THEN <<>>
    ELSE [i \in 1..(k \div LimbBits) |-> 0] \o NMulSmall(a, Pow2(k % LimbBits))

\* <<a div n, a mod n>>, for 0 < n < 2^16; limb i is the next one to divide
RECURSIVE NDivRec(_, _, _, _)
NDivRec(a, n, i, r) ==
    IF i = 0 THEN <<<<>>, r>>
    ELSE LET d    == r * Base + a[i]
             rest == NDivRec(a, n, i - 1, d % n)
         IN  <<Append(rest[1], d \div n), rest[2]>>

NDivSmall(a, n) ==
    LET qr == NDivRec(a, n, Len(a), 0) IN <<NNorm(qr[1]), qr[2]>>

NShr(a, k) ==
    LET w == k \div LimbBits
    IN  IF w >= Len(a) THEN <<>>
        ELSE NDivSmall(SubSeq(a, w + 1, Len(a)), Pow2(k % LimbBits))[1]

RECURSIVE NMulRec(_, _, _)
NMulRec(a, b, i) ==
    IF i > Len(b) THEN <<>>
    ELSE NAdd([j \in 1..(i - 1) |-> 0] \o NMulSmall(a, b[i]),
              NMulRec(a, b, i + 1))

NMul(a, b) == NNorm(NMulRec(a, b, 1))

NBitLen(a) ==
    IF a = <<>> THEN 0
    ELSE LimbBits * (Len(a) - 1) + IntBitLen(a[Len(a)])

NOdd(a) == a # <<>> /\ a[1] % 2 = 1

(***************************************************************************)
(* binary64 arithmetic.                                                    *)
(***************************************************************************)
Prec == 53

FZero == [s |-> 0, e |-> 0, m |-> <<>>]

\* Whether the significand keep is rounded up: rem is what lies below it,
\* half is half a unit of it; a tie goes to the even significand
RoundsUp(keep, rem, half, sticky) ==
    \/ NLess(half, rem)
    \/ rem = half /\ (sticky \/ NOdd(keep))

\* The float of sign s, exponent e and significand inc = keep + 1, which may
\* have one bit too many
Incremented(s, e, inc) ==
    IF NBitLen(inc) > Prec THEN [s |-> s, e |-> e + 1, m |-> NShr(inc, 1)]
    ELSE [s |-> s, e |-> e, m |-> inc]

\* mag has sh bits too many and keep is mag without them
RoundKept(s, e, mag, sh, keep, sticky) ==
    IF RoundsUp(keep, NSub(mag, NShl(keep, sh)), NShl(<<1>>, sh - 1), sticky)
    THEN Incremented(s, e, NAdd(keep, <<1>>))
    ELSE [s |-> s, e |-> e, m |-> keep]

\* mag has len bits
RoundLen(s, mag, q, sticky, len) ==
    IF len <= Prec
    THEN [s |-> s, e |-> q + len - 1, m |-> NShl(mag, Prec - len)]
    ELSE RoundKept(s, q + len - 1, mag, len - Prec, NShr(mag, len - Prec),
                   sticky)

\* The float nearest to s * (mag + f) * 2^q, where mag > 0 is a natural
\* number and 0 < f < 1 when sticky, f = 0 otherwise.  A sticky mag has at
\* least Prec + 2 bits.
RoundTo(s, mag, q, sticky) == RoundLen(s, mag, q, sticky, NBitLen(mag))

\* float(n)
FromInt(n) ==
    IF n = 0 THEN FZero
    ELSE RoundTo(IF n < 0 THEN -1 ELSE 1,
                 NFromInt(IF n < 0 THEN -n ELSE n), 0, FALSE)

FNeg(x) == [x EXCEPT !.s = -x.s]

\* the exponent of the unit of the significand of x
Unit(x) == x.e - (Prec - 1)

\* qr is <<quotient, remainder>> of the significand of x, shifted by k
\* bits, by the divisor
RoundQuotient(x, k, qr) == RoundTo(x.s, qr[1], Unit(x) - k, qr[2] # 0)

\* x / n, for an integer 0 < n < 2^16
FDivInt(x, n) ==
    IF x.s = 0 THEN FZero
    ELSE RoundQuotient(x, IntBitLen(n) + 2,
                       NDivSmall(NShl(x.m, IntBitLen(n) + 2), n))

\* x + y for x, y # 0, with xa and ya their significands in units of 2^q
AddAligned(x, y, q, xa, ya) ==
    IF x.s # y.s /\ xa = ya THEN FZero
    ELSE RoundTo(IF x.s = y.s \/ NLess(ya, xa) THEN x.s ELSE y.s,
                 IF x.s = y.s THEN NAdd(xa, ya)
                 ELSE IF NLess(xa, ya) THEN NSub(ya, xa) ELSE NSub(xa, ya),
                 q, FALSE)

\* x + y
FAdd(x, y) ==
    IF x.s = 0 THEN y
    ELSE IF y.s = 0 THEN x
    ELSE AddAligned(x, y, IF x.e < y.e THEN Unit(x) ELSE Unit(y),
                    NShl(x.m, IF x.e < y.e THEN 0 ELSE x.e - y.e),
                    NShl(y.m, IF x.e < y.e THEN y.e - x.e ELSE 0))

\* x - y
FSub(x, y) == FAdd(x, FNeg(y))

\* x * y
FMul(x, y) ==
    IF x.s = 0 \/ y.s = 0 THEN FZero
    ELSE RoundTo(x.s * y.s, NMul(x.m, y.m), Unit(x) + Unit(y), FALSE)

\* <<quotient, remainder>> of a long division by d, bit by bit, until the
\* quotient has Prec + 2 bits: q is the quotient so far and r < d the
\* remainder
RECURSIVE DivBits(_, _, _)
DivBits(r, d, q) ==
    IF NBitLen(q) = Prec + 2 THEN <<q, r>>
    ELSE IF NLess(NShl(r, 1), d)
         THEN DivBits(NShl(r, 1), d, NShl(q, 1))
         ELSE DivBits(NSub(NShl(r, 1), d), d, NAdd(NShl(q, 1), <<1>>))

\* qr is <<quotient, remainder>> of the significand of x, shifted by k
\* bits, by the significand of y
RoundRatio(x, y, k, qr) ==
    RoundTo(x.s * y.s, qr[1], x.e - y.e - k, qr[2] # <<>>)

\* x / y, for y # 0
FDiv(x, y) ==
    IF x.s = 0 THEN FZero
    ELSE IF NLess(x.m, y.m)
         THEN RoundRatio(x, y, Prec + 2, DivBits(x.m, y.m, <<>>))
         ELSE RoundRatio(x, y, Prec + 1,
                         DivBits(NSub(x.m, y.m), y.m, <<1>>))

MagLess(x, y) ==
    \/ x.e < y.e
    \/ x.e = y.e /\ NLess(x.m, y.m)

\* x < y
FLess(x, y) ==
    IF x.s = 0 THEN y.s = 1
    ELSE IF y.s = 0 THEN x.s = -1
    ELSE IF x.s # y.s THEN x.s < y.s
    ELSE IF x.s = 1 THEN MagLess(x, y)
    ELSE MagLess(y, x)

\* x <= y
FLeq(x, y) == ~FLess(y, x)

(***************************************************************************)
(* The inputs: prompt files, test cases, and a deterministic mock of the   *)
(* model backend and of the judge.                                         *)
(***************************************************************************)
MaxCands == 2

\* Prompt files.  "X" is a file that cannot be read or parsed.
Prompts == {"A", "B"}

Unreadable == "X"

Models == {"claude", "gpt-4"}

\* The value of a key that a test case does not have.
NoName == "<none>"

\* Test cases of a test file.  name is the value of the key the runner reads
\* the name from; two of the cases have none.
T1 == [name |-> "t1", inputs |-> "i1",
       expected_keywords |-> <<<<"h", "i">>>>, quality_criteria |-> "q"]

T2 == [name |-> "t2", inputs |-> "i2",
       expected_keywords |-> <<>>, quality_criteria |-> ""]

T3 == [name |-> "t3", inputs |-> "i3",
       expected_keywords |-> <<<<"h", "i">>, <<"Y", "O">>>>,
       quality_criteria |-> ""]

TZ == [name |-> "tz", inputs |-> "iz",
       expected_keywords |-> <<<<"h", "i">>>>, quality_criteria |-> "q"]

U1 == [name |-> NoName, inputs |-> "i2",
       expected_keywords |-> <<<<"h", "i">>, <<"Y", "O">>, <<"n", "o">>>>,
       quality_criteria |-> "q"]

U2 == [name |-> NoName, inputs |-> "i4",
       expected_keywords |-> <<>>, quality_criteria |-> "q"]

TestPool == {T1, T2, T3, TZ, U1, U2}

ComparePool == {T1, T3, TZ}

RegressPool == {T1, T2, TZ, U1, U2}

\* The lines of a JSONL test file: a test case, or a line that is not JSON.
BadLine == <<"bad">>

JsonlLines == {<<"ok", t>> : t \in {T1, T2, T3, TZ, U2}} \cup {BadLine}

SeqsUpTo(S, n) == UNION {[1..k -> S] : k \in 0..n}

\* The rendered prompt: the template with the inputs of the test substituted.
Render(template, inputs) == <<template, inputs>>

\* The mock backend: the reply of client.messages.create to a rendered
\* prompt, "RAISE" when the call raises.
MockLLM(rendered) ==
    CASE rendered = <<"A", "i1">> -> "o7"
      [] rendered = <<"B", "i1">> -> "o6"
      [] rendered = <<"A", "i2">> -> "o5"
      [] rendered = <<"B", "i2">> -> "o2"
      [] rendered = <<"A", "i3">> -> "o9"
      [] rendered = <<"B", "i3">> -> "o5"
      [] rendered = <<"A", "i4">> -> "o9"
      [] rendered = <<"B", "i4">> -> "on"
      [] rendered = <<"A", "iz">> -> "RAISE"
      [] rendered = <<"B", "iz">> -> "oj"

NotImplemented == "Model not implemented"

\* The text of an output, as a sequence of characters
OutputText(actual) ==
    CASE actual = "o9" -> <<"H", "i", " ", "y", "o">>
      [] actual = "o7" -> <<"h", "i">>
      [] actual = "o6" -> <<"O", "h", " ", "H", "I">>
      [] actual = "o5" -> <<"y", "o">>
      [] actual = "o2" -> <<>>
      [] actual = "on" -> <<"n", "o">>
      [] actual = "oj" -> <<"h", "i", " ", "y", "o">>
      [] actual = NotImplemented -> <<"n", "o", "t">>

\* A reply of the judge is what its lines say: a score line (or none) and a
\* passed line (or none); raises says that the call raised instead.
Reply(hasScore, score, passedLine) ==
    [raises |-> FALSE, hasScore |-> hasScore, score |-> score,
     passedLine |-> passedLine]

\* The mock judge: the reply to the judge prompt for an output
MockJudge(actual) ==
    CASE actual = "o9" -> Reply(TRUE, 9, "true")
      [] actual = "o7" -> Reply(TRUE, 7, "true")
      [] actual = "o6" -> Reply(TRUE, 6, "false")
      [] actual = "o5" -> Reply(TRUE, 5, "false")
      [] actual = "o2" -> Reply(TRUE, 2, "none")
      [] actual = "on" -> Reply(FALSE, 0, "true")
      [] actual = "oj" -> [Reply(FALSE, 0, "none") EXCEPT !.raises = TRUE]
      [] actual = NotImplemented -> Reply(TRUE, 2, "false")

(***************************************************************************)
(* evaluator.py: PromptEvaluator                                           *)
(***************************************************************************)
\* Whether ANTHROPIC_API_KEY is set in the environment of the process
VARIABLE api_key

\* the variables of the environment
envvars == <<api_key>>

\* str(e) of the exception _get_anthropic_client raises without a key
NoApiKey == "ANTHROPIC_API_KEY environment variable is required"

\* str(e) of the exception a test of the suite raises
ErrorMessage == IF api_key THEN "ProviderFailure" ELSE NoApiKey

\* The call of the model "claude": _get_anthropic_client, which raises
\* without a key, then client.messages.create
ClaudeOutput(rendered) == IF api_key THEN MockLLM(rendered) ELSE "RAISE"

\* _judge_output
JudgeOutput(actual) ==
    LET reply == MockJudge(actual)
    IN  IF ~api_key \/ reply.raises
        THEN [score |-> 0, passed |-> FALSE,
              explanation |-> "Error during evaluation"]
        ELSE LET score == IF reply.hasScore THEN reply.score ELSE 5
             IN  [score |-> score,
                  passed |-> IF score >= 6 THEN TRUE
                             ELSE reply.passedLine = "true",
                  explanation |-> "judged"]

TestName(test) == IF test.name = NoName THEN "unnamed" ELSE test.name

\* The result a raised exception leaves for a test
ErrorResult(test) ==
    [test_name |-> TestName(test), error |-> ErrorMessage,
     passed |-> FALSE, score |-> 0]

\* One iteration of the loop of run_tests
RunOneTest(tmpl, test, mdl) ==
    LET rendered == Render(tmpl, test.inputs)
        actual   == IF mdl = "claude" THEN ClaudeOutput(rendered)
                                      ELSE NotImplemented
    IN  IF actual = "RAISE" THEN ErrorResult(test)
        ELSE LET evaluation == JudgeOutput(actual)
             IN  [test_name |-> TestName(test),
                  inputs |-> test.inputs,
                  actual |-> actual,
                  rendered_prompt |-> rendered,
                  passed |-> evaluation.passed,
                  score |-> evaluation.score,
                  explanation |-> evaluation.explanation]

RECURSIVE SumScore(_)
SumScore(rs) == IF rs = <<>> THEN 0 ELSE Head(rs).score + SumScore(Tail(rs))

PassedCount(rs) == Cardinality({i \in 1..Len(rs) : rs[i].passed})

\* A ratio that is vacuously 1 when there is nothing to divide by
RatioVacuous(a, n) == IF n > 0 THEN FDivInt(FromInt(a), n) ELSE FromInt(1)

\* a / n of two integers, 0 when n = 0
Ratio(a, n) == IF n > 0 THEN FDivInt(FromInt(a), n) ELSE FZero

\* The summary run_tests computes from its results
Summary(rs) ==
    LET total_tests  == Len(rs)
        passed_tests == PassedCount(rs)
    IN  [total |-> total_tests,
         passed |-> passed_tests,
         failed |-> total_tests - passed_tests,
         pass_rate |-> Ratio(passed_tests, total_tests),
         average_score |-> Ratio(SumScore(rs), total_tests)]

\* str.lower, on the characters of the model
LowerChar(c) ==
    CASE c = "H" -> "h"
      [] c = "I" -> "i"
      [] c = "Y" -> "y"
      [] c = "O" -> "o"
      [] OTHER   -> c

\* A comparison that minds the case: nothing is lowered
LowerNot(str) == str

Lower(str) == [i \in 1..Len(str) |-> LowerChar(str[i])]

\* needle in hay
Contains(hay, needle) ==
    \E i \in 0..(Len(hay) - Len(needle)) :
        SubSeq(hay, i + 1, i + Len(needle)) = needle

F03 == FDivInt(FromInt(3), 10)

F06 == FDivInt(FromInt(6), 10)

F07 == FDivInt(FromInt(7), 10)

F10 == FromInt(10)

\* _evaluate_jsonl_output
EvaluateJsonlOutput(actual, expected_keywords, quality_criteria) ==
    LET output_lower    == Lower(OutputText(actual))
        keyword_matches ==
            SelectSeq(expected_keywords,
                      LAMBDA k : Contains(output_lower, Lower(k)))
        keyword_score   ==
            IF expected_keywords # <<>>
            THEN Ratio(Len(keyword_matches), Len(expected_keywords))
            ELSE FromInt(1)
        quality_score   ==
            IF quality_criteria # ""
            THEN FDivInt(FromInt(JudgeOutput(actual).score), 10)
            ELSE keyword_score
        final_score     ==
            FAdd(FMul(quality_score, F07), FMul(keyword_score, F03))
    IN  [score |-> FMul(final_score, F10),
         passed |-> FLeq(F06, final_score),
         keyword_matches |-> keyword_matches,
         keyword_score |-> keyword_score,
         quality_score |-> quality_score,
         explanation |-> <<"Matched", Len(keyword_matches),
                           Len(expected_keywords), "quality score",
                           quality_score>>]

\* The result a raised exception leaves for a test of run_jsonl_tests
JsonlErrorResult(test) ==
    [test_name |-> TestName(test), error |-> ErrorMessage,
     passed |-> FALSE, score |-> FZero]

\* One iteration of the loop of run_jsonl_tests
RunOneJsonl(tmpl, test, mdl) ==
    LET rendered == Render(tmpl, test.inputs)
        actual   == IF mdl = "claude" THEN ClaudeOutput(rendered)
                                      ELSE NotImplemented
    IN  IF actual = "RAISE" THEN JsonlErrorResult(test)
        ELSE LET evaluation ==
                     EvaluateJsonlOutput(actual, test.expected_keywords,
                                         test.quality_criteria)
             IN  [test_name |-> TestName(test),
                  inputs |-> test.inputs,
                  actual_output |-> actual,
                  expected_keywords |-> test.expected_keywords,
                  quality_criteria |-> test.quality_criteria,
                  passed |-> evaluation.passed,
                  score |-> evaluation.score,
                  keyword_matches |-> evaluation.keyword_matches,
                  explanation |-> evaluation.explanation]

RECURSIVE FSumScore(_, _)
FSumScore(rs, acc) ==
    IF rs = <<>> THEN acc ELSE FSumScore(Tail(rs), FAdd(acc, Head(rs).score))

\* The summary run_jsonl_tests computes from its results
JsonlSummary(rs) ==
    LET total_tests  == Len(rs)
        passed_tests == PassedCount(rs)
        total_score  == FSumScore(rs, FZero)
    IN  [total |-> total_tests,
         passed |-> passed_tests,
         failed |-> total_tests - passed_tests,
         pass_rate |-> Ratio(passed_tests, total_tests),
         average_score |-> IF total_tests > 0
                           THEN FDivInt(total_score, total_tests)
                           ELSE FZero]

\* The test cases run_jsonl_tests loads from the lines of a file
RECURSIVE LoadJsonl(_)
LoadJsonl(lines) ==
    IF lines = <<>> THEN <<>>
    ELSE IF Head(lines)[1] = "ok"
         THEN <<Head(lines)[2]>> \o LoadJsonl(Tail(lines))
         ELSE LoadJsonl(Tail(lines))

\* The comparison of a sort that leaves reverse=True out
KeyLessAscending(x, y) ==
    \/ FLess(y.pass_rate, x.pass_rate)
    \/ x.pass_rate = y.pass_rate /\ FLess(y.avg_score, x.avg_score)

\* The key the comparisons rank by: (pass_rate, avg_score), compared as
\* Python compares tuples
KeyLess(x, y) ==
    \/ FLess(x.pass_rate, y.pass_rate)
    \/ x.pass_rate = y.pass_rate /\ FLess(x.avg_score, y.avg_score)

\* An insertion that is not stable: an element goes in front of the
\* elements it compares equal to
InsertBeforeTies(sorted, x) ==
    LET k == Cardinality({i \in 1..Len(sorted) : KeyLess(x, sorted[i])})
    IN  SubSeq(sorted, 1, k) \o <<x>> \o SubSeq(sorted, k + 1, Len(sorted))

\* sorted(..., reverse=True) is stable: an element goes behind the elements
\* that do not compare less than it
Insert(sorted, x) ==
    LET k == Cardinality({i \in 1..Len(sorted) : ~KeyLess(sorted[i], x)})
    IN  SubSeq(sorted, 1, k) \o <<x>> \o SubSeq(sorted, k + 1, Len(sorted))

RECURSIVE SortedFrom(_, _)
SortedFrom(sorted, rest) ==
    IF rest = <<>> THEN sorted
    ELSE SortedFrom(Insert(sorted, Head(rest)), Tail(rest))

\* sorted(rs, key=lambda x: (x['pass_rate'], x['avg_score']), reverse=True)
Ranked(rs) == SortedFrom(<<>>, rs)

\* ranked[0] if ranked else None, as a sequence of at most one element
Best(ranked) == IF ranked # <<>> THEN <<ranked[1]>> ELSE <<>>

\* The versions compare_prompt_versions is given: a file and, for some, a
\* name
VersionPool ==
    {[file |-> "A", name |-> NoName],
     [file |-> "B", name |-> NoName],
     [file |-> "B", name |-> "v2"],
     [file |-> Unreadable, name |-> NoName]}

\* Path(prompt_file).stem: a prompt file is known by its stem
Stem(prompt_file) == prompt_file

\* The entry compare_prompt_versions keeps for a version
VersionEntry(version_info, test_results) ==
    [version |-> IF version_info.name # NoName THEN version_info.name
                 ELSE Stem(version_info.file),
     file |-> version_info.file,
     pass_rate |-> test_results.summary.pass_rate,
     avg_score |-> test_results.summary.average_score,
     total_tests |-> test_results.summary.total,
     detailed_results |-> test_results]

\* The entry compare_models keeps for a model whose run returned
ModelEntry(mdl, test_results) ==
    [model |-> mdl,
     pass_rate |-> test_results.summary.pass_rate,
     avg_score |-> test_results.summary.average_score,
     total_tests |-> test_results.summary.total,
     detailed_results |-> test_results]

\* The entry compare_models keeps for a model whose run raised
ModelErrorEntry(mdl) ==
    [model |-> mdl, error |-> "unreadable", pass_rate |-> FZero,
     avg_score |-> FZero]

IsError(r) == "error" \in DOMAIN r

\* What compare_prompt_versions returns
VersionsReturn(rs) ==
    LET ranked == Ranked(rs)
    IN  [comparison_results |-> rs,
         ranked_versions |-> ranked,
         best_version |-> Best(ranked)]

\* What compare_models returns
ModelsReturn(rs) ==
    LET valid_results == SelectSeq(rs, LAMBDA r : ~IsError(r))
        ranked        == Ranked(valid_results)
    IN  [model_comparison |-> rs,
         ranked_models |-> ranked,
         best_model |-> Best(ranked)]

F01 == FDivInt(FromInt(1), 10)

\* baseline_tests.get(test_name): the last baseline result of that name,
\* as a sequence of at most one element
BaselineTest(baseline, test_name) ==
    LET is == {i \in 1..Len(baseline) : baseline[i].test_name = test_name}
    IN  IF is = {} THEN <<>>
        ELSE <<baseline[CHOOSE i \in is : \A j \in is : j <= i]>>

\* The test-by-test comparison of regression_test
RECURSIVE TestRegressions(_, _)
TestRegressions(baseline, current) ==
    IF current = <<>> THEN <<>>
    ELSE LET current_test  == Head(current)
             baseline_test == BaselineTest(baseline, current_test.test_name)
             rest          == TestRegressions(baseline, Tail(current))
         IN  IF baseline_test # <<>>
                /\ current_test.score - baseline_test[1].score < -2
             THEN <<[test_name |-> current_test.test_name,
                     baseline_score |-> baseline_test[1].score,
                     current_score |-> current_test.score,
                     score_difference |->
                         current_test.score - baseline_test[1].score]>>
                  \o rest
             ELSE rest

\* _get_regression_recommendation
RegressionRecommendation(regression_detected, test_regressions) ==
    IF ~regression_detected THEN "SAFE"
    ELSE IF Len(test_regressions) <= 2 THEN "MINOR REGRESSION"
    ELSE "MAJOR REGRESSION"

\* A detection that looks at the pass rate alone
DetectedByPassRate(baseline_summary, current_summary) ==
    FLess(current_summary.pass_rate, FSub(baseline_summary.pass_rate, F01))

\* regression_detected of regression_test
RegressionDetected(baseline_summary, current_summary) ==
    \/ FLess(current_summary.pass_rate,
             FSub(baseline_summary.pass_rate, F01))
    \/ FLess(current_summary.average_score,
             FSub(baseline_summary.average_score, FromInt(1)))

\* What regression_test returns
RegressionReturn(baseline_results, current_results) ==
    LET baseline_summary == baseline_results.summary
        current_summary  == current_results.summary
        regression_detected ==
            RegressionDetected(baseline_summary, current_summary)
        test_regressions ==
            TestRegressions(baseline_results.results, current_results.results)
    IN  [regression_detected |-> regression_detected,
         baseline_performance |-> baseline_summary,
         current_performance |-> current_summary,
         performance_delta |->
             [pass_rate_change |->
                  FSub(current_summary.pass_rate, baseline_summary.pass_rate),
              score_change |->
                  FSub(current_summary.average_score,
                       baseline_summary.average_score)],
         test_regressions |-> test_regressions,
         recommendation |->
             RegressionRecommendation(regression_detected, test_regressions)]

(***************************************************************************)
(* prompt_evaluator.py: PromptEvaluator (mock mode)                        *)
(***************************************************************************)
\* The words of the dispatch of _execute_prompt that occur in the template
\* of a prompt file
TemplateWords(f) == IF f = "A" THEN {"summarize"} ELSE {}

\* _execute_prompt: the canned response for the rendered prompt
ExecutePrompt(rendered) ==
    LET words == TemplateWords(rendered[1])
    IN  IF "summarize" \in words THEN "summarization"
        ELSE IF "translate" \in words THEN "translation"
        ELSE IF "email" \in words THEN "email"
        ELSE IF "analyze" \in words /\ "feedback" \in words THEN "feedback"
        ELSE IF "classify" \in words THEN "classification"
        ELSE "generic"

\* len() of a canned response
ResponseLen(output) ==
    CASE output = "summarization" -> 170
      [] output = "classification" -> 24
      [] OTHER -> 131

\* Whether a canned response, lowercased, contains a lowercased keyword:
\* "This is a concise summary ... technology ..." has "hi" and "no",
\* "This is a helpful ... your request ..." has "hi" and "yo".
ResponseHas(output, keyword) ==
    CASE output = "summarization" -> keyword \in {<<"h", "i">>, <<"n", "o">>}
      [] output = "generic" -> keyword \in {<<"h", "i">>, <<"y", "o">>}
      [] OTHER -> FALSE

\* The values of random.uniform(-0.3, 0.3) the model draws from
Draws == {FNeg(F03), FZero, FDivInt(FromInt(1), 4)}

FMin(x, y) == IF FLess(y, x) THEN y ELSE x

FMax(x, y) == IF FLess(x, y) THEN y ELSE x

\* _score_output, with r the value random.uniform returns
ScoreOutput(output, expected_keywords, r) ==
    LET found == Len(SelectSeq(expected_keywords,
                               LAMBDA k : ResponseHas(output, Lower(k))))
        s1 == IF expected_keywords # <<>>
              THEN FAdd(FromInt(8),
                        FMul(Ratio(found, Len(expected_keywords)), FromInt(2)))
              ELSE FromInt(8)
        s2 == IF ResponseLen(output) < 10 THEN FSub(s1, FromInt(2))
              ELSE IF ResponseLen(output) > 1000
                   THEN FSub(s1, FDivInt(FromInt(1), 2))
                   ELSE s1
        s3 == FAdd(s2, FDivInt(FromInt(1), 2))
        s4 == FAdd(s3, r)
    IN  FMin(FMax(s4, FZero), F10)

\* _run_single_test
RunSingleTest(prompt, test_case, r) ==
    LET rendered == Render(prompt, test_case.inputs)
        output   == ExecutePrompt(rendered)
        score    == ScoreOutput(output, test_case.expected_keywords, r)
    IN  [test_name |-> IF test_case.name = NoName THEN "unnamed_test"
                       ELSE test_case.name,
         inputs |-> test_case.inputs,
         output |-> output,
         score |-> score,
         passed |-> FLeq(FromInt(7), score)]

\* _create_report
CreateReport(prompt_file, rs, mdl) ==
    LET total_tests   == Len(rs)
        passed_tests  == PassedCount(rs)
        average_score == IF total_tests > 0
                         THEN FDivInt(FSumScore(rs, FZero), total_tests)
                         ELSE FZero
    IN  [prompt_file |-> prompt_file,
         model |-> mdl,
         total_tests |-> total_tests,
         passed_tests |-> passed_tests,
         average_score |-> average_score,
         individual_results |-> rs,
         summary |-> [pass_rate |-> Ratio(passed_tests, total_tests),
                      average_score |-> average_score,
                      model_used |-> mdl]]

(***************************************************************************)
(* server/llms/config.py and runtime.py: the model backend adapters        *)
(***************************************************************************)
\* The mock backend of OpenAI: the reply of chat.completions.create to a
\* prompt, "RAISE" when the call raises
MockGPT(content) ==
    CASE content = <<"B", "i1">> -> "RAISE"
      [] content = <<"B", "i3">> -> "o9"
      [] OTHER -> "o5"

\* The outcomes of a call: the value it returns, or the exception it raises
Returned(value) == [kind |-> "returned", value |-> value]

Raised(type, message) == [kind |-> "raised", type |-> type, message |-> message]

\* The try block of generate_prompt_llm; openai_key says whether
\* OPENAI_API_KEY is set in the environment when get_openai_client reads it
GenerateTry(prompt, mdl, openai_key) ==
    IF mdl = "claude"
    THEN IF ~api_key THEN Raised("ValueError", NoApiKey)
         ELSE IF MockLLM(prompt) = "RAISE"
              THEN Raised("APIError", "ProviderFailure")
              ELSE Returned(MockLLM(prompt))
    ELSE IF mdl = "openai" \/ mdl = "gpt-4"
    THEN IF ~openai_key
         THEN Raised("ValueError",
                     "OPENAI_API_KEY environment variable is required")
         ELSE IF MockGPT(prompt) = "RAISE"
              THEN Raised("APIError", "ProviderFailure")
              ELSE Returned(MockGPT(prompt))
    ELSE Raised("ValueError", "Model not supported")

\* generate_prompt_llm: whatever its try block raises, it raises again as
\* an Exception that carries the message
GeneratePromptLlm(prompt, mdl, openai_key) ==
    LET outcome == GenerateTry(prompt, mdl, openai_key)
    IN  IF outcome.kind = "raised"
        THEN Raised("Exception",
                    <<"Error generating response", outcome.message>>)
        ELSE outcome

\* judge_prompt_output: the score of the Score line of the reply, 5 when
\* there is none or it does not parse; whatever is raised is raised again
\* as an Exception that carries the message
JudgePromptOutput(output) ==
    LET reply == MockJudge(output)
    IN  IF ~api_key
        THEN Raised("Exception", <<"Error judging output", NoApiKey>>)
        ELSE IF reply.raises
        THEN Raised("Exception", <<"Error judging output", "ProviderFailure">>)
        ELSE LET score == IF reply.hasScore THEN reply.score ELSE 5
             IN  Returned([score |-> score, passed |-> score >= 6])

\* prompt_data.get('model') of a prompt file: "A" names its model, "B" has
\* no model
PromptModel(prompt_file) == IF prompt_file = "A" THEN "claude-3" ELSE NoName

\* model.startswith(prefix), on the models of the model
StartsWith(mdl, prefix) ==
    CASE prefix = "claude" -> mdl \in {"claude", "claude-3"}
      [] prefix = "gpt" -> mdl \in {"gpt-4"}

\* PromptRunner.run, of a runner whose client was made iff has_client, with
\* OPENAI_API_KEY set iff openai_key; the mock outputs have no whitespace
\* around them for strip() to take off
RunnerRun(prompt_file, has_client, variables, mdl, openai_key) ==
    LET used    == IF mdl # "None" THEN mdl
                   ELSE IF PromptModel(prompt_file) # NoName
                        THEN PromptModel(prompt_file)
                        ELSE "gpt-4"
        content == Render(prompt_file, variables)
    IN  IF StartsWith(used, "claude") /\ has_client
        THEN IF MockLLM(content) = "RAISE"
             THEN Raised("APIError", "ProviderFailure")
             ELSE Returned(MockLLM(content))
        ELSE IF StartsWith(used, "gpt")
        THEN IF ~openai_key
             THEN Raised("OpenAIError", "The api_key client option must be set")
             ELSE IF MockGPT(content) = "RAISE"
                  THEN Raised("APIError", "ProviderFailure")
                  ELSE Returned(MockGPT(content))
        ELSE Raised("ValueError", "Model not supported or API key missing")

\* adapter before any call of an adapter
NoCall == [call |-> "none"]

(***************************************************************************)
(* The renderers: prompt_evaluator.py _render_prompt, the loops of         *)
(* evaluator.py run_tests and runtime.py run, and backend/routes/testgen.py *)
(* run_tests.  Strings are sequences of characters.                        *)
(***************************************************************************)
\* str.replace(old, new), for old # "": every occurrence of old, from the
\* left and without overlap
RECURSIVE StrReplace(_, _, _)
StrReplace(str, old, new) ==
    IF Len(str) < Len(old) THEN str
    ELSE IF SubSeq(str, 1, Len(old)) = old
         THEN new \o StrReplace(SubSeq(str, Len(old) + 1, Len(str)), old, new)
         ELSE <<Head(str)>> \o StrReplace(Tail(str), old, new)

\* str(value): a value is <<"str", characters>> or <<"int", n>>
Str(value) ==
    IF value[1] = "str" THEN value[2]
    ELSE IF value[2] < 10 THEN <<ToString(value[2])>>
    ELSE <<ToString(value[2] \div 10), ToString(value[2] % 10)>>

\* f"{{{{ {key} }}}}": the placeholder of _render_prompt, of
\* evaluator.run_tests and of PromptRunner.run
Placeholder(key) == <<"{", "{", " ">> \o key \o <<" ", "}", "}">>

\* f"{{{{{key}}}}}": the placeholder of testgen.run_tests
PlaceholderTight(key) == <<"{", "{">> \o key \o <<"}", "}">>

\* The loop over inputs.items(), a sequence of <<key, value>> in the order
\* of the dict
RECURSIVE RenderPrompt(_, _)
RenderPrompt(rendered, items) ==
    IF items = <<>> THEN rendered
    ELSE RenderPrompt(StrReplace(rendered, Placeholder(Head(items)[1]),
                                 Str(Head(items)[2])),
                      Tail(items))

\* The loop of testgen.run_tests
RECURSIVE RenderTight(_, _)
RenderTight(rendered, items) ==
    IF items = <<>> THEN rendered
    ELSE RenderTight(StrReplace(rendered, PlaceholderTight(Head(items)[1]),
                                Str(Head(items)[2])),
                     Tail(items))

\* The renderers of the engine
Renderers == {"_render_prompt", "evaluator.run_tests", "PromptRunner.run",
              "testgen.run_tests"}

RenderBy(renderer, tmpl, items) ==
    IF renderer = "testgen.run_tests" THEN RenderTight(tmpl, items)
    ELSE RenderPrompt(tmpl, items)

\* Templates: "{{ x }}", "{{x}}", "{{  x  }}", "a{{ x }}{{ y }}", "{{ z }}"
\* and "ab"
RenderTemplates ==
    {<<"{", "{", " ", "x", " ", "}", "}">>,
     <<"{", "{", "x", "}", "}">>,
     <<"{", "{", " ", " ", "x", " ", " ", "}", "}">>,
     <<"a", "{", "{", " ", "x", " ", "}", "}",
       "{", "{", " ", "y", " ", "}", "}">>,
     <<"{", "{", " ", "z", " ", "}", "}">>,
     <<"a", "b">>}

\* Values: "v", 42, and the text "{{ y }}"
RenderValues ==
    {<<"str", <<"v">>>>, <<"int", 42>>,
     <<"str", <<"{", "{", " ", "y", " ", "}", "}">>>>}

\* The variable maps: at most two items, of the keys "x" and "y", in either
\* order
RenderItems ==
    LET Item == {<<k, v>> : k \in {<<"x">>, <<"y">>}, v \in RenderValues}
    IN  {<<>>} \cup {<<i>> : i \in Item}
        \cup {p \in Item \X Item : p[1][1] # p[2][1]}

(***************************************************************************)
(* evaluator.py: the performance tests.  An output is the text a run       *)
(* appended to run_outputs: error says whether it starts with "Error:",    *)
(* as the text of a failed run does, and len is its length.                *)
(***************************************************************************)
MaxRuns == 3

\* the lengths of the texts the backend returns
OutputLens == {0, 1, 3, 10}

\* f"Error: {str(e)}"
ErrorOutput == [error |-> TRUE, len |-> 7]

TextOutput(n) == [error |-> FALSE, len |-> n]

\* what a run whose client exists can append
RunOutputs == {ErrorOutput} \cup {TextOutput(n) : n \in OutputLens}

F1 == FromInt(1)

\* [len(output) for output in outputs if not output.startswith('Error:')]
NotError(output) == ~output.error

Lengths(outputs) ==
    [i \in 1..Len(SelectSeq(outputs, NotError)) |->
        SelectSeq(outputs, NotError)[i].len]

\* sum(lengths)
RECURSIVE SumLengths(_)
SumLengths(lengths) ==
    IF lengths = <<>> THEN 0 ELSE Head(lengths) + SumLengths(Tail(lengths))

\* sum(lengths) / len(lengths)
AvgLength(lengths) == FDivInt(FromInt(SumLengths(lengths)), Len(lengths))

\* sum((l - avg_length) ** 2 for l in lengths), from its i-th term on, acc
\* being the sum of the terms before
RECURSIVE SumSquares(_, _, _, _)
SumSquares(lengths, avg_length, i, acc) ==
    IF i > Len(lengths) THEN acc
    ELSE SumSquares(lengths, avg_length, i + 1,
                    FAdd(acc, FMul(FSub(FromInt(lengths[i]), avg_length),
                                   FSub(FromInt(lengths[i]), avg_length))))

Variance(lengths, avg_length) ==
    FDivInt(SumSquares(lengths, avg_length, 1, FZero), Len(lengths))

\* variance / (avg_length ** 2) if avg_length > 0 else 1.0
RelativeVariance(variance, avg_length) ==
    IF FLess(FZero, avg_length)
    THEN FDiv(variance, FMul(avg_length, avg_length))
    ELSE F1

\* the score of a non-empty list of lengths
LengthConsistency(lengths, avg_length) ==
    FMax(FZero,
         FSub(F1, RelativeVariance(Variance(lengths, avg_length),
                                   avg_length)))

\* _evaluate_consistency
EvaluateConsistency(outputs) ==
    IF Len(outputs) < 2 THEN F1
    ELSE IF Lengths(outputs) = <<>> THEN FZero
    ELSE LengthConsistency(Lengths(outputs), AvgLength(Lengths(outputs)))

\* what one run of a performance test appends to run_outputs: nothing
\* unless the model is "claude"; the error of the missing API key when the
\* client cannot be made; otherwise the backend's text or its error
RunAppends(mdl, has_key) ==
    IF mdl # "claude" THEN {<<>>}
    ELSE IF ~has_key THEN {<<ErrorOutput>>}
    ELSE {<<o>> : o \in RunOutputs}

NoPerf == [call |-> "none"]

(***************************************************************************)
(* run_results.py: the RunResultsManager.  Times are left out: a run is    *)
(* its run_id, its success flag and its results, a result the unique_id    *)
(* and the status it was recorded with.  run_id, a timestamp, is the       *)
(* number of the run among the runs started.                               *)
(***************************************************************************)
MaxStarted == 2

MaxRecorded == 3

RunStatus == {"success", "error", "skipped", "warn"}

PromptIds == {"a", "b"}

\* self.current_run = None
NoRun == [none |-> TRUE]

\* the RunResults start_run makes
NewRun(run_id) == [run_id |-> run_id, success |-> TRUE, results |-> <<>>]

\* status in [RunStatus.ERROR, RunStatus.WARN]
FailsRun(status) == status \in {"error", "warn"}

\* A flag that follows the last result recorded
RecordedSuccessLast(success, status) == ~FailsRun(status)

\* current_run.success after a result of this status is recorded
RecordedSuccess(success, status) ==
    IF FailsRun(status) THEN FALSE ELSE success

\* current_run after record_prompt_result
Recorded(run, prompt_id, status) ==
    [run EXCEPT !.success = RecordedSuccess(@, status),
                !.results = Append(@, [unique_id |-> prompt_id,
                                       status |-> status])]

\* how complete_run ends: it returns, or writing one of its two files
\* raises
SaveOutcomes == {"returned", "_save_results raised", "_save_latest raised"}

\* A complete_run that leaves the run where it is
StillActive(run) == run

\* current_run after complete_run has saved the run
Cleared(run) == NoRun

\* the manager after __init__: no run, and no file: saved holds the
\* run_id of every run that has its file, latest is the run_id of the run
\* in the file of the latest run, 0 when there is no such file
NewManager ==
    [current_run |-> NoRun, started |-> 0, saved |-> {}, latest |-> 0,
     call |-> "none", outcome |-> "none", returned |-> NoRun]

\* what a call leaves on the manager and on the disk
ManagerState(m) == <<m.current_run, m.started, m.saved, m.latest>>

(***************************************************************************)
(* dag.py: the PromptDAG.  Names and dependencies are strings, sequences   *)
(* of characters.  The graph is the networkx DiGraph: its nodes and its    *)
(* edges in the order of their insertion, which is the order networkx      *)
(* iterates them in.                                                       *)
(***************************************************************************)
MaxFiles == 3

MaxDeps == 2

PromptNames == {<<"a">>, <<"b">>, <<"c">>}

\* ref('name'), the way a prompt names a dependency in DBT's syntax
Ref(name) == <<"r", "e", "f", "(", "'">> \o name \o <<"'", ")">>

\* what depends_on lists: references to the prompts and to a prompt "x" no
\* file defines, and the bare name of a prompt
DepPool == {Ref(n) : n \in PromptNames} \cup {Ref(<<"x">>), <<"b">>}

\* the depends_on lists: no dependency twice
DependsOnLists ==
    {deps \in SeqsUpTo(DepPool, MaxDeps) :
        \A i, j \in 1..Len(deps) : i # j => deps[i] # deps[j]}

\* dep.startswith(prefix)
HasPrefix(dep, prefix) ==
    /\ Len(dep) >= Len(prefix)
    /\ SubSeq(dep, 1, Len(prefix)) = prefix

\* str.strip(chars)
RECURSIVE Strip(_, _)
Strip(str, chars) ==
    IF str = <<>> THEN <<>>
    ELSE IF Head(str) \in chars THEN Strip(Tail(str), chars)
    ELSE IF str[Len(str)] \in chars
         THEN Strip(SubSeq(str, 1, Len(str) - 1), chars)
         ELSE str

\* dep[4:-1].strip("'\"")
DepName(dep) == Strip(SubSeq(dep, 5, Len(dep) - 1), {"'", "\""})

\* the graph of a new PromptDAG
EmptyGraph == [nodes |-> <<>>, edges |-> <<>>]

InSeq(x, seq) == \E i \in 1..Len(seq) : seq[i] = x

\* graph.add_node(name)
AddNode(g, name) ==
    IF InSeq(name, g.nodes) THEN g
    ELSE [g EXCEPT !.nodes = Append(@, name)]

\* the edge once both its ends are nodes
AddEdgeOf(g, u, v) ==
    IF InSeq(<<u, v>>, g.edges) THEN g
    ELSE [g EXCEPT !.edges = Append(@, <<u, v>>)]

\* graph.add_edge(u, v)
AddEdge(g, u, v) == AddEdgeOf(AddNode(AddNode(g, u), v), u, v)

\* the loop over node.depends_on, from the i-th dependency on: only a
\* dependency that starts with ref( makes an edge
RECURSIVE AddDependencies(_, _, _, _)
AddDependencies(g, name, depends_on, i) ==
    IF i > Len(depends_on) THEN g
    ELSE IF HasPrefix(depends_on[i], <<"r", "e", "f", "(">>)
         THEN AddDependencies(AddEdge(g, DepName(depends_on[i]), name),
                              name, depends_on, i + 1)
         ELSE AddDependencies(g, name, depends_on, i + 1)

\* the graph after _load_prompt
LoadedGraph(g, name, depends_on) ==
    AddDependencies(AddNode(g, name), name, depends_on, 1)

\* G.neighbors(u)
IsEdgeFrom(u, edge) == edge[1] = u

RECURSIVE Neighbors(_, _, _)
Neighbors(g, u, i) ==
    IF i > Len(g.edges) THEN <<>>
    ELSE IF IsEdgeFrom(u, g.edges[i])
         THEN <<g.edges[i][2]>> \o Neighbors(g, u, i + 1)
         ELSE Neighbors(g, u, i + 1)

\* G.in_degree(v)
InDegree(g, v) == Cardinality({i \in 1..Len(g.edges) : g.edges[i][2] = v})

InDegreeMap(g) ==
    [v \in {g.nodes[i] : i \in 1..Len(g.nodes)} |-> InDegree(g, v)]

\* [v for v, d in G.in_degree() if d == 0], from the i-th node on
RECURSIVE ZeroInDegree(_, _)
ZeroInDegree(g, i) ==
    IF i > Len(g.nodes) THEN <<>>
    ELSE IF InDegree(g, g.nodes[i]) = 0
         THEN <<g.nodes[i]>> \o ZeroInDegree(g, i + 1)
         ELSE ZeroInDegree(g, i + 1)

\* the children of the nodes of a generation, in the order the generation
\* visits them
RECURSIVE Children(_, _)
Children(g, generation) ==
    IF generation = <<>> THEN <<>>
    ELSE Neighbors(g, Head(generation), 1) \o Children(g, Tail(generation))

\* every child loses one incoming edge; those left with none make the next
\* generation: <<indegree_map, zero_indegree>>
RECURSIVE Relax(_, _, _)
Relax(children, indegree_map, zero_indegree) ==
    IF children = <<>> THEN <<indegree_map, zero_indegree>>
    ELSE Relax(Tail(children),
               [indegree_map EXCEPT ![Head(children)] = @ - 1],
               IF indegree_map[Head(children)] = 1
               THEN Append(zero_indegree, Head(children))
               ELSE zero_indegree)

\* networkx's topological_generations, one generation after the other
RECURSIVE Generations(_, _, _)
NextGenerations(g, relaxed) == Generations(g, relaxed[2], relaxed[1])

Generations(g, generation, indegree_map) ==
    IF generation = <<>> THEN <<>>
    ELSE generation
         \o NextGenerations(g, Relax(Children(g, generation), indegree_map,
                                     <<>>))

\* the nodes nx.topological_sort yields: all of them when the graph has no
\* cycle
TopologicalSort(g) == Generations(g, ZeroInDegree(g, 1), InDegreeMap(g))

\* nx.is_directed_acyclic_graph
IsDirectedAcyclic(g) == Len(TopologicalSort(g)) = Len(g.nodes)

\* a new PromptDAG: no node, an empty graph
NewDAG ==
    [pc |-> "new", nodes |-> <<>>, graph |-> EmptyGraph,
     execution_order |-> <<>>]

(***************************************************************************)
(* snapshot.py: the SnapshotManager.  A snapshot is the file of its        *)
(* timestamp in the directory of its prompt.  A timestamp is a second and  *)
(* a microsecond of the clock; isoformat() writes the microsecond only     *)
(* when it is not zero.                                                    *)
(***************************************************************************)
MaxKeep == 2

SnapshotPrompts == {"p", "q"}

\* the instants of the clock, in the order of time
Timestamps == {[sec |-> sec, micro |-> micro] : sec \in {1, 2},
                                                 micro \in {0, 5}}

Later(t, u) == t.sec < u.sec \/ (t.sec = u.sec /\ t.micro < u.micro)

\* the clock before any snapshot
Epoch == [sec |-> 0, micro |-> 0]

Digit(n) == CASE n = 1 -> "1" [] n = 2 -> "2" [] n = 5 -> "5"

\* datetime.utcnow().isoformat(), of which only the second and the
\* fraction are kept
IsoFormat(t) ==
    IF t.micro = 0 THEN <<Digit(t.sec)>>
    ELSE <<Digit(t.sec), ".", Digit(t.micro)>>

\* f"{snapshot.timestamp.replace(':', '-')}.yaml"
Filename(t) == IsoFormat(t) \o <<".", "y", "a", "m", "l">>

\* the code point of a character of a file name
Ord(c) ==
    CASE c = "." -> 46
      [] c = "1" -> 49
      [] c = "2" -> 50
      [] c = "5" -> 53
      [] c = "a" -> 97
      [] c = "l" -> 108
      [] c = "m" -> 109
      [] c = "y" -> 121

\* a < b for strings, as sorted() compares the paths of one directory
RECURSIVE StrLess(_, _)
StrLess(a, b) ==
    IF b = <<>> THEN FALSE
    ELSE IF a = <<>> THEN TRUE
    ELSE IF Head(a) = Head(b) THEN StrLess(Tail(a), Tail(b))
    ELSE Ord(Head(a)) < Ord(Head(b))

\* the file of the set whose name is first
FirstFile(files) ==
    CHOOSE t \in files :
        \A u \in files \ {t} : StrLess(Filename(t), Filename(u))

\* sorted(prompt_dir.glob("*.yaml"))
RECURSIVE SortedFiles(_)
SortedFiles(files) ==
    IF files = {} THEN <<>>
    ELSE <<FirstFile(files)>> \o SortedFiles(files \ {FirstFile(files)})

\* snapshots[:-keep_last]: Python reads -0 as 0, the empty slice
AllButLast(snapshots, keep_last) ==
    IF keep_last = 0 THEN <<>>
    ELSE SubSeq(snapshots, 1, Len(snapshots) - keep_last)

\* the files cleanup_old_snapshots unlinks in one prompt's directory
Unlinked(files, keep_last) ==
    IF Cardinality(files) > keep_last
    THEN {AllButLast(SortedFiles(files), keep_last)[i] :
             i \in 1..Len(AllButLast(SortedFiles(files), keep_last))}
    ELSE {}

\* removed_count over the directories
RECURSIVE RemovedCount(_, _, _)
RemovedCount(dirs, prompts, keep_last) ==
    IF prompts = {} THEN 0
    ELSE Cardinality(Unlinked(dirs[CHOOSE p \in prompts : TRUE], keep_last))
         + RemovedCount(dirs, prompts \ {CHOOSE p \in prompts : TRUE},
                        keep_last)

\* a new SnapshotManager in a project without snapshots
NewSnapshots ==
    [dirs |-> [p \in SnapshotPrompts |-> {}], now |-> Epoch,
     call |-> "none", keep_last |-> 0, removed_count |-> 0]

(***************************************************************************)
(* The other components: their state before any call.                      *)
(***************************************************************************)
NoRendering == [call |-> "none"]


(***************************************************************************)
(* The state.                                                              *)
(***************************************************************************)
VARIABLES
    op,        \* the operation in progress
    pc,        \* where it is
    template,  \* the template of the suite run in progress
    model,     \* its model
    tests,     \* its test cases
    results,   \* the results it has collected
    suite,     \* what the last suite run returned
    report,    \* the report of prompt_evaluator's last evaluation
    self_model,\* prompt_evaluator.PromptEvaluator.model
    cands,     \* the candidates of a comparison: file, model and name
    entries,   \* what the comparison has collected, one entry a candidate
    ret,       \* what the comparison returned
    adapter,   \* the call of a model backend adapter and its outcome
    jsonl_file,\* the lines run_jsonl_tests has read from its test file
    rendering, \* the call of a renderer and what it returned
    perf,      \* the performance test in progress and its outputs
    manager,   \* the RunResultsManager
    dag,       \* the PromptDAG
    snaps      \* the SnapshotManager

vars == <<op, pc, template, model, tests, results, suite, report, self_model,
          cands, entries, ret, api_key, adapter,
          jsonl_file, rendering, perf, manager, dag, snaps>>

\* the variables of the other components of the engine
libvars == <<rendering, perf, manager, dag, snaps>>

\* the variables of the evaluators and of the adapters
evalvars == <<op, pc, template, model, tests, results, suite, report,
              self_model, cands, entries, ret, api_key, adapter, jsonl_file>>

\* the variables of a comparison
cmpvars == <<cands, entries, ret>>

\* the variables of prompt_evaluator's evaluator
pevars == <<report, self_model>>

\* suite before any suite run has returned
NoSuite == [results |-> <<>>, summary |-> Summary(<<>>)]

\* ret before any comparison has returned
NoReturn == [none |-> TRUE]

\* The operations that run their tests through run_tests
UsesRunTests ==
    {"run_tests", "compare_prompt_versions", "compare_models",
     "regression_test"}

Idle ==
    /\ op = "none"
    /\ pc = "idle"
    /\ template = "none"
    /\ model = "none"
    /\ tests = <<>>
    /\ results = <<>>
    /\ suite = NoSuite
    /\ report = CreateReport("none", <<>>, "claude")
    /\ self_model = "claude"
    /\ cands = <<>>
    /\ entries = <<>>
    /\ ret = NoReturn
    /\ api_key \in BOOLEAN
    /\ adapter = NoCall
    /\ jsonl_file = <<>>
    /\ rendering = NoRendering
    /\ perf = NoPerf
    /\ manager = NewManager
    /\ dag = NewDAG
    /\ snaps = NewSnapshots

\* run_tests is called
StartRunTests ==
    /\ pc = "idle"
    /\ \E t \in Prompts, m \in Models, ts \in SeqsUpTo(TestPool, MaxTests) :
          /\ op' = "run_tests"
          /\ template' = t
          /\ model' = m
          /\ tests' = ts
    /\ results' = <<>>
    /\ pc' = "tests"
    /\ UNCHANGED <<envvars, adapter, jsonl_file, libvars>>
    /\ UNCHANGED <<suite, pevars, cmpvars>>

\* A loop without the try/except around a test: the exception of a test
\* leaves run_tests
TestStepUnguarded ==
    /\ pc = "tests"
    /\ op \in UsesRunTests
    /\ Len(results) < Len(tests)
    /\ IF IsError(RunOneTest(template, tests[Len(results) + 1], model))
       THEN results' = results /\ pc' = "raised"
       ELSE /\ results' =
                  Append(results,
                         RunOneTest(template, tests[Len(results) + 1], model))
            /\ pc' = pc
    /\ UNCHANGED <<envvars, adapter, jsonl_file, libvars>>
    /\ UNCHANGED <<op, template, model, tests, suite, pevars, cmpvars>>

\* A loop that puts the newest result first
TestStepPrepend ==
    /\ pc = "tests"
    /\ op \in UsesRunTests
    /\ Len(results) < Len(tests)
    /\ results' = <<RunOneTest(template, tests[Len(results) + 1], model)>>
                  \o results
    /\ UNCHANGED <<envvars, adapter, jsonl_file, libvars>>
    /\ UNCHANGED <<op, pc, template, model, tests, suite, pevars, cmpvars>>

\* The loop of run_tests takes the next test
TestStep ==
    /\ pc = "tests"
    /\ op \in UsesRunTests
    /\ Len(results) < Len(tests)
    /\ results' = Append(results,
                         RunOneTest(template, tests[Len(results) + 1], model))
    /\ UNCHANGED <<envvars, adapter, jsonl_file, libvars>>
    /\ UNCHANGED <<op, pc, template, model, tests, suite, pevars, cmpvars>>

\* The loop is over: run_tests returns results and summary
Summarise ==
    /\ pc = "tests"
    /\ op \in UsesRunTests
    /\ Len(results) = Len(tests)
    /\ suite' = [results |-> results, summary |-> Summary(results)]
    /\ pc' = IF op = "run_tests" THEN "done" ELSE "collect"
    /\ UNCHANGED <<envvars, adapter, jsonl_file, libvars>>
    /\ UNCHANGED <<op, template, model, tests, results, pevars, cmpvars>>

\* run_jsonl_tests is called: it loads the prompt file, which raises when
\* the file is unreadable, and the lines of the test file
StartRunJsonl ==
    /\ pc = "idle"
    /\ op' = "run_jsonl_tests"
    /\ results' = <<>>
    /\ \E f \in Prompts \cup {Unreadable}, m \in Models,
          lines \in SeqsUpTo(JsonlLines, MaxTests) :
          /\ model' = m
          /\ IF f = Unreadable
             THEN /\ template' = template
                  /\ jsonl_file' = jsonl_file
                  /\ tests' = tests
                  /\ pc' = "raised"
             ELSE /\ template' = f
                  /\ jsonl_file' = lines
                  /\ tests' = LoadJsonl(lines)
                  /\ pc' = "tests"
    /\ UNCHANGED <<envvars, adapter, libvars>>
    /\ UNCHANGED <<suite, pevars, cmpvars>>

\* The loop of run_jsonl_tests takes the next test
JsonlStep ==
    /\ pc = "tests"
    /\ op = "run_jsonl_tests"
    /\ Len(results) < Len(tests)
    /\ results' = Append(results,
                         RunOneJsonl(template, tests[Len(results) + 1], model))
    /\ UNCHANGED <<envvars, adapter, jsonl_file, libvars>>
    /\ UNCHANGED <<op, pc, template, model, tests, suite, pevars, cmpvars>>

\* The loop is over: run_jsonl_tests returns results and summary
JsonlSummarise ==
    /\ pc = "tests"
    /\ op = "run_jsonl_tests"
    /\ Len(results) = Len(tests)
    /\ suite' = [results |-> results, summary |-> JsonlSummary(results)]
    /\ pc' = "done"
    /\ UNCHANGED <<envvars, adapter, jsonl_file, libvars>>
    /\ UNCHANGED <<op, template, model, tests, results, pevars, cmpvars>>

\* The test cases handed to prompt_evaluator's evaluate_jsonl_tests
EvalPool == {T1, T2, T3}

\* evaluate_jsonl_tests is called, with a model or with None; it loads the
\* prompt file, which raises when the file is unreadable
StartEvaluateJsonl ==
    /\ pc = "idle"
    /\ op' = "evaluate_jsonl_tests"
    /\ results' = <<>>
    /\ \E f \in Prompts \cup {Unreadable}, m \in Models \cup {"None"},
          ts \in SeqsUpTo(EvalPool, MaxTests) :
          /\ model' = m
          /\ self_model' = IF m # "None" THEN m ELSE self_model
          /\ IF f = Unreadable
             THEN template' = template /\ tests' = tests /\ pc' = "raised"
             ELSE template' = f /\ tests' = ts /\ pc' = "tests"
    /\ UNCHANGED <<envvars, adapter, jsonl_file, libvars>>
    /\ UNCHANGED <<suite, report, cmpvars>>

\* The loop of evaluate_jsonl_tests takes the next test
EvalStep ==
    /\ pc = "tests"
    /\ op = "evaluate_jsonl_tests"
    /\ Len(results) < Len(tests)
    /\ \E r \in Draws :
          results' = Append(results,
                            RunSingleTest(template, tests[Len(results) + 1], r))
    /\ UNCHANGED <<envvars, adapter, jsonl_file, libvars>>
    /\ UNCHANGED <<op, pc, template, model, tests, suite, pevars, cmpvars>>

\* The loop is over: evaluate_jsonl_tests returns the report
EvalReport ==
    /\ pc = "tests"
    /\ op = "evaluate_jsonl_tests"
    /\ Len(results) = Len(tests)
    /\ report' = CreateReport(template, results, self_model)
    /\ pc' = "done"
    /\ UNCHANGED <<envvars, adapter, jsonl_file, libvars>>
    /\ UNCHANGED <<op, template, model, tests, results, suite, self_model,
                   cmpvars>>

\* evaluate_jsonl_tests has returned its report or raised: the caller has
\* the report, the evaluator is free for its next call, and of the call
\* only what it stored on the evaluator remains
EvalReturn ==
    /\ pc \in {"done", "raised"}
    /\ op = "evaluate_jsonl_tests"
    /\ op' = "none"
    /\ pc' = "idle"
    /\ template' = "none"
    /\ model' = "none"
    /\ tests' = <<>>
    /\ results' = <<>>
    /\ report' = CreateReport("none", <<>>, "claude")
    /\ UNCHANGED <<envvars, adapter, jsonl_file, libvars>>
    /\ UNCHANGED <<suite, self_model, cmpvars>>

\* A candidate of a comparison: a call of test_agent_with_file to make
Candidate(file, mdl, name) == [file |-> file, model |-> mdl, name |-> name]

\* compare_prompt_versions is called
StartCompareVersions ==
    /\ pc = "idle"
    /\ op' = "compare_prompt_versions"
    /\ \E versions \in SeqsUpTo(VersionPool, MaxCands),
          ts \in SeqsUpTo(ComparePool, MaxTests) :
          /\ cands' = [i \in 1..Len(versions) |->
                           Candidate(versions[i].file, "claude",
                                     versions[i].name)]
          /\ tests' = ts
    /\ entries' = <<>>
    /\ pc' = "next"
    /\ UNCHANGED <<envvars, adapter, jsonl_file, libvars>>
    /\ UNCHANGED <<template, model, results, suite, pevars, ret>>

\* compare_models is called, with a list of models or with None
StartCompareModels ==
    /\ pc = "idle"
    /\ op' = "compare_models"
    /\ \E prompt_file \in Prompts \cup {Unreadable}, none \in BOOLEAN,
          ms \in SeqsUpTo(Models, MaxCands),
          ts \in SeqsUpTo(ComparePool, MaxTests) :
          LET models == IF none THEN <<"claude", "gpt-4">> ELSE ms
          IN  /\ cands' = [i \in 1..Len(models) |->
                               Candidate(prompt_file, models[i], NoName)]
              /\ tests' = ts
    /\ entries' = <<>>
    /\ pc' = "next"
    /\ UNCHANGED <<envvars, adapter, jsonl_file, libvars>>
    /\ UNCHANGED <<template, model, results, suite, pevars, ret>>

\* regression_test is called: it runs the baseline, then the current prompt
StartRegression ==
    /\ pc = "idle"
    /\ op' = "regression_test"
    /\ \E current_prompt \in Prompts \cup {Unreadable},
          baseline_prompt \in Prompts \cup {Unreadable},
          ts \in SeqsUpTo(RegressPool, MaxTests) :
          /\ cands' = <<Candidate(baseline_prompt, "claude", NoName),
                        Candidate(current_prompt, "claude", NoName)>>
          /\ tests' = ts
    /\ entries' = <<>>
    /\ pc' = "next"
    /\ UNCHANGED <<envvars, adapter, jsonl_file, libvars>>
    /\ UNCHANGED <<template, model, results, suite, pevars, ret>>

\* test_agent_with_file is called for the next candidate and loads its
\* files.  An unreadable file raises: compare_models catches that and keeps
\* an error entry, the other operations let it propagate.
NextCandidate ==
    /\ pc = "next"
    /\ Len(entries) < Len(cands)
    /\ LET c == cands[Len(entries) + 1]
       IN  IF c.file # Unreadable
           THEN /\ template' = c.file
                /\ model' = c.model
                /\ results' = <<>>
                /\ pc' = "tests"
                /\ UNCHANGED entries
           ELSE /\ entries' = IF op = "compare_models"
                              THEN Append(entries, ModelErrorEntry(c.model))
                              ELSE entries
                /\ pc' = IF op = "compare_models" THEN "next" ELSE "raised"
                /\ UNCHANGED <<template, model, results>>
    /\ UNCHANGED <<envvars, adapter, jsonl_file, libvars>>
    /\ UNCHANGED <<op, tests, suite, pevars, cands, ret>>

\* test_agent_with_file has returned to compare_prompt_versions
CollectVersion ==
    /\ pc = "collect"
    /\ op = "compare_prompt_versions"
    /\ entries' = Append(entries,
                         VersionEntry(cands[Len(entries) + 1], suite))
    /\ pc' = "next"
    /\ UNCHANGED <<envvars, adapter, jsonl_file, libvars>>
    /\ UNCHANGED <<op, template, model, tests, results, suite, pevars, cands,
                   ret>>

\* test_agent_with_file has returned to compare_models
CollectModel ==
    /\ pc = "collect"
    /\ op = "compare_models"
    /\ entries' = Append(entries, ModelEntry(model, suite))
    /\ pc' = "next"
    /\ UNCHANGED <<envvars, adapter, jsonl_file, libvars>>
    /\ UNCHANGED <<op, template, model, tests, results, suite, pevars, cands,
                   ret>>

\* test_agent_with_file has returned to regression_test
CollectRun ==
    /\ pc = "collect"
    /\ op = "regression_test"
    /\ entries' = Append(entries, suite)
    /\ pc' = "next"
    /\ UNCHANGED <<envvars, adapter, jsonl_file, libvars>>
    /\ UNCHANGED <<op, template, model, tests, results, suite, pevars, cands,
                   ret>>

\* The loop of compare_prompt_versions is over: it ranks and returns
RankVersions ==
    /\ pc = "next"
    /\ op = "compare_prompt_versions"
    /\ Len(entries) = Len(cands)
    /\ ret' = VersionsReturn(entries)
    /\ pc' = "done"
    /\ UNCHANGED <<envvars, adapter, jsonl_file, libvars>>
    /\ UNCHANGED <<op, template, model, tests, results, suite, pevars, cands,
                   entries>>

\* The loop of compare_models is over: it ranks and returns
RankModels ==
    /\ pc = "next"
    /\ op = "compare_models"
    /\ Len(entries) = Len(cands)
    /\ ret' = ModelsReturn(entries)
    /\ pc' = "done"
    /\ UNCHANGED <<envvars, adapter, jsonl_file, libvars>>
    /\ UNCHANGED <<op, template, model, tests, results, suite, pevars, cands,
                   entries>>

\* Both runs of regression_test have returned: it compares and returns
ReportRegression ==
    /\ pc = "next"
    /\ op = "regression_test"
    /\ Len(entries) = Len(cands)
    /\ ret' = RegressionReturn(entries[1], entries[2])
    /\ pc' = "done"
    /\ UNCHANGED <<envvars, adapter, jsonl_file, libvars>>
    /\ UNCHANGED <<op, template, model, tests, results, suite, pevars, cands,
                   entries>>

\* The models a caller names to an adapter
AdapterModels == {"claude", "claude-3", "openai", "gpt-4", "llama"}

\* The inputs of the test cases
InputPool == {"i1", "i2", "i3", "i4", "iz"}

\* generate_prompt_llm is called
CallGeneratePromptLlm ==
    /\ adapter.call = "none"
    /\ \E t \in Prompts, i \in InputPool, m \in AdapterModels,
          k \in BOOLEAN :
          adapter' = [call |-> "generate_prompt_llm",
                      prompt |-> Render(t, i),
                      model |-> m,
                      openai_key |-> k,
                      outcome |-> GeneratePromptLlm(Render(t, i), m, k)]
    /\ UNCHANGED <<op, pc, template, model, tests, results, suite, pevars,
                   cmpvars, envvars, jsonl_file, libvars>>

\* The outputs a judge is asked about
OutputPool == {"o9", "o7", "o6", "o5", "o2", "on", "oj", NotImplemented}

\* judge_prompt_output is called
CallJudgePromptOutput ==
    /\ adapter.call = "none"
    /\ \E output \in OutputPool :
          adapter' = [call |-> "judge_prompt_output",
                      output |-> output,
                      outcome |-> JudgePromptOutput(output)]
    /\ UNCHANGED <<op, pc, template, model, tests, results, suite, pevars,
                   cmpvars, envvars, jsonl_file, libvars>>

\* A PromptRunner is made: it loads its prompt file, which raises when the
\* file is unreadable, and makes a client when it has the key for one
NewPromptRunner ==
    /\ adapter.call = "none"
    /\ \E f \in Prompts \cup {Unreadable} :
          adapter' = IF f = Unreadable
                     THEN [call |-> "PromptRunner", raised |-> TRUE]
                     ELSE [call |-> "PromptRunner", raised |-> FALSE,
                           prompt_file |-> f, anthropic_client |-> api_key]
    /\ UNCHANGED <<op, pc, template, model, tests, results, suite, pevars,
                   cmpvars, envvars, jsonl_file, libvars>>

\* run is called on the PromptRunner, with a model or with None
CallRun ==
    /\ adapter.call = "PromptRunner"
    /\ ~adapter.raised
    /\ \E i \in InputPool, m \in AdapterModels \cup {"None"},
          k \in BOOLEAN :
          adapter' = [call |-> "run",
                      prompt_file |-> adapter.prompt_file,
                      variables |-> i,
                      model |-> m,
                      openai_key |-> k,
                      outcome |-> RunnerRun(adapter.prompt_file,
                                            adapter.anthropic_client, i, m,
                                            k)]
    /\ UNCHANGED <<op, pc, template, model, tests, results, suite, pevars,
                   cmpvars, envvars, jsonl_file, libvars>>

\* A renderer is called on a template and a variable map
CallRender ==
    /\ rendering.call = "none"
    /\ \E r \in Renderers, t \in RenderTemplates, items \in RenderItems :
          rendering' = [call |-> r, template |-> t, items |-> items,
                        output |-> RenderBy(r, t, items)]
    /\ UNCHANGED <<evalvars, perf, manager, dag, snaps>>

\* _run_performance_tests starts on a performance test
StartPerf ==
    /\ perf.call = "none"
    /\ \E m \in Models, runs \in 0..MaxRuns :
          perf' = [call |-> "_run_performance_tests", pc |-> "runs",
                   model |-> m, runs |-> runs, i |-> 0, outputs |-> <<>>]
    /\ UNCHANGED <<evalvars, rendering, manager, dag, snaps>>

\* one run of the performance test
PerfRun ==
    /\ perf.call = "_run_performance_tests"
    /\ perf.pc = "runs"
    /\ perf.i < perf.runs
    /\ \E appended \in RunAppends(perf.model, api_key) :
          perf' = [perf EXCEPT !.i = @ + 1, !.outputs = @ \o appended]
    /\ UNCHANGED <<evalvars, rendering, manager, dag, snaps>>

\* after the last run the outputs are scored and the test's entry is made
PerfEvaluate ==
    /\ perf.call = "_run_performance_tests"
    /\ perf.pc = "runs"
    /\ perf.i = perf.runs
    /\ perf' = [call |-> "_run_performance_tests", pc |-> "done",
                model |-> perf.model, runs |-> perf.runs, i |-> perf.i,
                outputs |-> perf.outputs,
                consistency_score |-> EvaluateConsistency(perf.outputs)]
    /\ UNCHANGED <<evalvars, rendering, manager, dag, snaps>>

\* start_run: a new run replaces the current one, if any
StartRun ==
    /\ manager.started < MaxStarted
    /\ manager' = [manager EXCEPT !.current_run = NewRun(manager.started + 1),
                                  !.started = @ + 1,
                                  !.call = "start_run",
                                  !.outcome = "returned",
                                  !.returned = NoRun]
    /\ UNCHANGED <<evalvars, rendering, perf, dag, snaps>>

\* record_prompt_result
RecordPromptResult ==
    /\ \E prompt_id \in PromptIds, status \in RunStatus :
          IF manager.current_run = NoRun
          THEN manager' = [manager EXCEPT !.call = "record_prompt_result",
                                          !.outcome = "ValueError",
                                          !.returned = NoRun]
          ELSE /\ Len(manager.current_run.results) < MaxRecorded
               /\ manager' = [manager EXCEPT
                                 !.current_run = Recorded(@, prompt_id, status),
                                 !.call = "record_prompt_result",
                                 !.outcome = "returned",
                                 !.returned = NoRun]
    /\ UNCHANGED <<evalvars, rendering, perf, dag, snaps>>

\* complete_run
CompleteRun ==
    /\ IF manager.current_run = NoRun
       THEN manager' = [manager EXCEPT !.call = "complete_run",
                                       !.outcome = "ValueError",
                                       !.returned = NoRun]
       ELSE \E outcome \in SaveOutcomes :
               manager' =
                   [current_run |-> IF outcome = "returned"
                                    THEN Cleared(manager.current_run)
                                    ELSE manager.current_run,
                    started |-> manager.started,
                    saved |-> IF outcome = "_save_results raised"
                              THEN manager.saved
                              ELSE manager.saved
                                       \cup {manager.current_run.run_id},
                    latest |-> IF outcome = "returned"
                               THEN manager.current_run.run_id
                               ELSE manager.latest,
                    call |-> "complete_run",
                    outcome |-> outcome,
                    returned |-> IF outcome = "returned"
                                 THEN manager.current_run
                                 ELSE NoRun]
    /\ UNCHANGED <<evalvars, rendering, perf, dag, snaps>>

\* load_prompts reads the next prompt file: _load_prompt
LoadPrompt ==
    /\ dag.pc \in {"new", "loading"}
    /\ Len(dag.nodes) < MaxFiles
    /\ \E name \in PromptNames, depends_on \in DependsOnLists :
          /\ \A i \in 1..Len(dag.nodes) : dag.nodes[i].name # name
          /\ dag' = [dag EXCEPT
                        !.pc = "loading",
                        !.nodes = Append(@, [name |-> name,
                                             depends_on |-> depends_on]),
                        !.graph = LoadedGraph(@, name, depends_on)]
    /\ UNCHANGED <<evalvars, rendering, perf, manager, snaps>>

\* load_prompts has read every file: _validate_dag
ValidateDag ==
    /\ dag.pc \in {"new", "loading"}
    /\ dag' = [dag EXCEPT !.pc = IF IsDirectedAcyclic(dag.graph)
                                 THEN "loaded" ELSE "raised"]
    /\ UNCHANGED <<evalvars, rendering, perf, manager, snaps>>

\* get_execution_order() after load_prompts has returned
GetExecutionOrder ==
    /\ dag.pc = "loaded"
    /\ dag' = [dag EXCEPT !.pc = "ordered",
                          !.execution_order = TopologicalSort(dag.graph)]
    /\ UNCHANGED <<evalvars, rendering, perf, manager, snaps>>

\* create_snapshot of a prompt, at a later instant of the clock
CreateSnapshot ==
    /\ \E prompt_name \in SnapshotPrompts, timestamp \in Timestamps :
          /\ Later(snaps.now, timestamp)
          /\ snaps' = [dirs |-> [snaps.dirs EXCEPT
                                    ![prompt_name] = @ \cup {timestamp}],
                       now |-> timestamp,
                       call |-> "create_snapshot",
                       keep_last |-> 0,
                       removed_count |-> 0]
    /\ UNCHANGED <<evalvars, rendering, perf, manager, dag>>

\* cleanup_old_snapshots(keep_last)
CleanupOldSnapshots ==
    /\ \E keep_last \in 0..MaxKeep :
          snaps' = [dirs |-> [p \in SnapshotPrompts |->
                                 snaps.dirs[p]
                                     \ Unlinked(snaps.dirs[p], keep_last)],
                    now |-> snaps.now,
                    call |-> "cleanup_old_snapshots",
                    keep_last |-> keep_last,
                    removed_count |-> RemovedCount(snaps.dirs,
                                                   SnapshotPrompts,
                                                   keep_last)]
    /\ UNCHANGED <<evalvars, rendering, perf, manager, dag>>

Init == Idle

Next ==
    \/ StartRunTests
    \/ TestStep
    \/ Summarise
    \/ StartRunJsonl
    \/ JsonlStep
    \/ JsonlSummarise
    \/ StartEvaluateJsonl
    \/ EvalStep
    \/ EvalReport

Spec == Init /\ [][Next]_vars

\* successive evaluations on one prompt_evaluator.PromptEvaluator
NextSession ==
    \/ StartEvaluateJsonl
    \/ EvalStep
    \/ EvalReport
    \/ EvalReturn

SpecSession == Init /\ [][NextSession]_vars

NextCompare ==
    \/ StartCompareVersions
    \/ StartCompareModels
    \/ NextCandidate
    \/ TestStep
    \/ Summarise
    \/ CollectVersion
    \/ CollectModel
    \/ RankVersions
    \/ RankModels

SpecCompare == Init /\ [][NextCompare]_vars

NextRegress ==
    \/ StartRegression
    \/ NextCandidate
    \/ TestStep
    \/ Summarise
    \/ CollectRun
    \/ ReportRegression

SpecRegress == Init /\ [][NextRegress]_vars

NextAdapter ==
    \/ CallGeneratePromptLlm
    \/ CallJudgePromptOutput
    \/ NewPromptRunner
    \/ CallRun

SpecAdapter == Init /\ [][NextAdapter]_vars

NextRender == CallRender

SpecRender == Init /\ [][NextRender]_vars

NextPerf ==
    \/ StartPerf
    \/ PerfRun
    \/ PerfEvaluate

SpecPerf == Init /\ [][NextPerf]_vars

NextManager ==
    \/ StartRun
    \/ RecordPromptResult
    \/ CompleteRun

SpecManager == Init /\ [][NextManager]_vars

NextDAG ==
    \/ LoadPrompt
    \/ ValidateDag
    \/ GetExecutionOrder

SpecDAG == Init /\ [][NextDAG]_vars

NextSnapshots ==
    \/ CreateSnapshot
    \/ CleanupOldSnapshots

SpecSnapshots == Init /\ [][NextSnapshots]_vars

(***************************************************************************)
(* The properties of the suite runners.                                    *)
(***************************************************************************)
SuiteOps == {"run_tests", "run_jsonl_tests"}

\* The model call of a test raises
Raises(tmpl, test, mdl) ==
    mdl = "claude" /\ ClaudeOutput(Render(tmpl, test.inputs)) = "RAISE"

\* The result of a test in a run of that test alone
Alone(o, tmpl, test, mdl) ==
    IF o = "run_jsonl_tests" THEN RunOneJsonl(tmpl, test, mdl)
    ELSE RunOneTest(tmpl, test, mdl)

\* C1: failure isolation in run_tests and run_jsonl_tests.  Whatever tests
\* have a model call that raises, no exception leaves the loop of the runner
\* (the only exception is that of a prompt file run_jsonl_tests cannot load,
\* before any test is run), a failing test is recorded with its error
\* message, passed = false and score = 0, every other test has the result
\* it has in a run of its own, and the summary counts every test.
C1_FailureIsolation ==
    op \in SuiteOps =>
        /\ pc = "raised" =>
              (op = "run_jsonl_tests" /\ tests = <<>> /\ results = <<>>)
        /\ Len(results) <= Len(tests)
        /\ \A i \in 1..Len(results) :
              IF Raises(template, tests[i], model)
              THEN /\ IsError(results[i])
                   /\ results[i].error = ErrorMessage
                   /\ results[i].passed = FALSE
                   /\ IF op = "run_tests" THEN results[i].score = 0
                      ELSE results[i].score = FZero
              ELSE /\ ~IsError(results[i])
                   /\ results[i] = Alone(op, template, tests[i], model)
        /\ pc = "done" =>
              /\ suite.results = results
              /\ Len(suite.results) = Len(tests)
              /\ suite.summary.total = Len(tests)

\* C1, its case: a run of three tests has returned, and the model call
\* raised for the second test only
C1_Witness ==
    /\ pc = "done"
    /\ op = "run_tests"
    /\ Len(tests) = 3
    /\ ~IsError(suite.results[1])
    /\ IsError(suite.results[2])
    /\ ~IsError(suite.results[3])
    /\ suite.summary.total = 3

\* r is a result of test case t: it has the name and the inputs of t
IsResultOf(r, t) ==
    /\ r.test_name = IF t.name # NoName THEN t.name
                     ELSE IF op = "evaluate_jsonl_tests" THEN "unnamed_test"
                     ELSE "unnamed"
    /\ IsError(r) \/ r.inputs = t.inputs

InOrder(rs, ts) ==
    /\ Len(rs) = Len(ts)
    /\ \A i \in 1..Len(rs) : IsResultOf(rs[i], ts[i])

\* C3: result ordering.  In every suite run (run_tests, run_jsonl_tests,
\* evaluate_jsonl_tests) the results collected so far are those of the first
\* test cases, in their order, and the results returned are as many as the
\* test cases with results[i] the result of test_cases[i], whichever tests
\* error.
C3_ResultOrdering ==
    /\ op \in SuiteOps \cup {"evaluate_jsonl_tests"} =>
          /\ Len(results) <= Len(tests)
          /\ \A i \in 1..Len(results) : IsResultOf(results[i], tests[i])
    /\ (pc = "done" /\ op \in SuiteOps) => InOrder(suite.results, tests)
    /\ (pc = "done" /\ op = "evaluate_jsonl_tests") =>
          InOrder(report.individual_results, tests)

\* C3, its case: a run of three different tests, the second of which
\* errors, has returned
C3_Witness ==
    /\ pc = "done"
    /\ op = "run_tests"
    /\ template = "A"
    /\ model = "claude"
    /\ tests = <<T3, TZ, T1>>
    /\ suite.results[1].test_name = "t3"
    /\ IsError(suite.results[2])
    /\ suite.results[3].test_name = "t1"

\* x is a float nearest to a / n, for integers a >= 0 and n > 0: x * n is
\* within half a unit of x, times n, of a
IsQuotient(x, a, n) ==
    IF a = 0 THEN x = FZero
    ELSE /\ x.s = 1
         /\ LET lhs == NMulSmall(x.m, n)
                rhs == NShl(NFromInt(a), Prec - 1 - x.e)
                d   == IF NLess(lhs, rhs) THEN NSub(rhs, lhs)
                       ELSE NSub(lhs, rhs)
            IN  ~NLess(NFromInt(n), NMulSmall(d, 2))

\* What a summary says of the results rs of a run over the test cases
SummaryHolds(total, passed, pass_rate, average_score, rs) ==
    /\ total = Len(tests)
    /\ passed = Cardinality({i \in 1..Len(rs) : rs[i].passed})
    /\ FLeq(FZero, pass_rate)
    /\ FLeq(pass_rate, FromInt(1))
    /\ IF total = 0 THEN pass_rate = FZero /\ average_score = FZero
       ELSE IsQuotient(pass_rate, passed, total)

\* C4: summary consistency.  The summary of every suite run (run_tests,
\* run_jsonl_tests, the report of evaluate_jsonl_tests) has total = the
\* number of test cases, passed = the number of results that passed,
\* passed + failed = total, 0 <= pass_rate <= 1 with pass_rate the float of
\* passed / total, and pass_rate = 0 and average_score = 0 when total = 0.
C4_SummaryConsistency ==
    /\ (pc = "done" /\ op \in SuiteOps) =>
          /\ SummaryHolds(suite.summary.total, suite.summary.passed,
                          suite.summary.pass_rate,
                          suite.summary.average_score, suite.results)
          /\ suite.summary.failed >= 0
          /\ suite.summary.passed + suite.summary.failed = suite.summary.total
    /\ (pc = "done" /\ op = "evaluate_jsonl_tests") =>
          /\ SummaryHolds(report.total_tests, report.passed_tests,
                          report.summary.pass_rate, report.average_score,
                          report.individual_results)
          /\ report.summary.average_score = report.average_score

\* C4, its case: a run of three tests has returned, two of which passed
C4_Witness ==
    /\ pc = "done"
    /\ op = "run_tests"
    /\ suite.summary.total = 3
    /\ suite.summary.passed = 2
    /\ suite.summary.failed = 1
    /\ suite.summary.pass_rate = FDivInt(FromInt(2), 3)

(***************************************************************************)
(* The properties of the comparisons.                                      *)
(***************************************************************************)
CompareOps == {"compare_prompt_versions", "compare_models"}

\* C2: the comparison state machine.  Candidates are processed one after
\* another in input order and every comparison that has begun reaches DONE
\* with one entry for every candidate, whatever candidate fails: a
\* comparison that is not yet DONE with all its entries can always take a
\* further step.  compare_prompt_versions does not do that: it has no
\* try/except around test_agent_with_file, and a version whose file cannot
\* be loaded ends the comparison with an exception and no entry for the
\* candidates that remain.
C2_ReachesDone ==
    op \in CompareOps =>
        \/ pc = "done" /\ Len(entries) = Len(cands)
        \/ ENABLED NextCompare

\* The entries a ranking ranks
Valid(rs) == SelectSeq(rs, LAMBDA r : ~IsError(r))

\* The ranked list and the winner of the comparison that has returned
Ranking == IF op = "compare_models" THEN ret.ranked_models
           ELSE ret.ranked_versions

Winner == IF op = "compare_models" THEN ret.best_model ELSE ret.best_version

SameKey(x, y) == x.pass_rate = y.pass_rate /\ x.avg_score = y.avg_score

\* C9: ranking order.  The ranked list of every comparison result has the
\* entries of the candidates whose run returned, sorted by pass_rate
\* descending and, among equal pass_rates, by average score descending; the
\* winner is the first element of the ranked list, and None exactly when the
\* ranked list is empty.
C9_RankingOrder ==
    (pc = "done" /\ op \in CompareOps) =>
        /\ Len(Ranking) = Len(Valid(entries))
        /\ \A i \in 1..(Len(Ranking) - 1) :
              \/ FLess(Ranking[i + 1].pass_rate, Ranking[i].pass_rate)
              \/ /\ Ranking[i + 1].pass_rate = Ranking[i].pass_rate
                 /\ FLeq(Ranking[i + 1].avg_score, Ranking[i].avg_score)
        /\ Winner = IF Ranking = <<>> THEN <<>> ELSE <<Ranking[1]>>

\* C9, its case: two versions pass the same share of the tests, the second
\* with the higher average score, and the ranking puts it first
C9_Witness ==
    /\ pc = "done"
    /\ op = "compare_prompt_versions"
    /\ Len(Ranking) = 2
    /\ cands[1].file = "B"
    /\ Ranking[1].version = "A"
    /\ Ranking[2].version = "B"
    /\ Ranking[1].pass_rate = Ranking[2].pass_rate
    /\ FLess(Ranking[2].avg_score, Ranking[1].avg_score)
    /\ Winner = <<Ranking[1]>>

\* ranked is input in another order that keeps the entries of equal key in
\* the order of input
StableOrder(ranked, input) ==
    /\ Len(ranked) = Len(input)
    /\ \E p \in [1..Len(ranked) -> 1..Len(input)] :
          /\ \A i \in 1..Len(ranked) : ranked[i] = input[p[i]]
          /\ \A i, j \in 1..Len(ranked) :
                i < j => /\ p[i] # p[j]
                         /\ SameKey(ranked[i], ranked[j]) => p[i] < p[j]

\* C10: tie-break determinism.  Candidates of equal pass_rate and equal
\* average score keep, in the ranking, the order they have in the input (the
\* sort is stable), so the summaries of the candidates and their order
\* determine the ranking and the winner.
C10_StableTieBreak ==
    (pc = "done" /\ op \in CompareOps) =>
        /\ StableOrder(Ranking, Valid(entries))
        /\ Winner = Best(Ranking)

\* C10, its case: two different versions tie on a test, and the ranking
\* keeps the one that came first in front
C10_Witness ==
    /\ pc = "done"
    /\ op = "compare_prompt_versions"
    /\ Len(tests) > 0
    /\ Len(Ranking) = 2
    /\ SameKey(Ranking[1], Ranking[2])
    /\ Ranking[1].file = "B"
    /\ Ranking[2].file = "A"

(***************************************************************************)
(* The properties of regression_test.                                      *)
(***************************************************************************)
RegressionDone == pc = "done" /\ op = "regression_test"

\* C5: the regression policy.  regression_detected is true exactly when the
\* reported pass_rate_change is below -0.1 or the reported score_change is
\* below -1.0, and the two reported changes are the differences of the pass
\* rates and of the average scores.  regression_test compares
\* current < baseline - threshold in floats instead, which is true of some
\* summaries whose difference is the threshold itself.
C5_RegressionPolicy ==
    RegressionDone =>
        /\ ret.performance_delta.pass_rate_change =
               FSub(entries[2].summary.pass_rate, entries[1].summary.pass_rate)
        /\ ret.performance_delta.score_change =
               FSub(entries[2].summary.average_score,
                    entries[1].summary.average_score)
        /\ ret.regression_detected =
               (\/ FLess(ret.performance_delta.pass_rate_change, FNeg(F01))
                \/ FLess(ret.performance_delta.score_change, FromInt(-1)))

C7_RegressionSymmetry ==
    (RegressionDone /\ cands[1] = cands[2]) =>
        /\ ~ret.regression_detected
        /\ ret.performance_delta.pass_rate_change = FZero
        /\ ret.performance_delta.score_change = FZero
        /\ ret.test_regressions = <<>>

\* The entry of test i in the list of regressed tests
RegressedEntry(baseline, current, i) ==
    [test_name |-> current[i].test_name,
     baseline_score |-> baseline[i].score,
     current_score |-> current[i].score,
     score_difference |-> current[i].score - baseline[i].score]

\* C8: per-test regressions.  The list of regressed tests has, in the order
\* of the tests, exactly the tests whose current score is more than 2.0
\* below their baseline score, each with its name, the two scores and their
\* difference.  Both runs are of the same tests, so a test has a result on
\* both sides.  The list differs when two tests have the same name (C7).
C8_PerTestRegressions ==
    RegressionDone =>
        ret.test_regressions =
            SelectSeq([i \in 1..Len(tests) |->
                          RegressedEntry(entries[1].results,
                                         entries[2].results, i)],
                      LAMBDA e : e.score_difference < -2)

(***************************************************************************)
(* The properties of the comparisons, continued.                           *)
(***************************************************************************)
\* ranked is a permutation of input
Permutation(ranked, input) ==
    /\ Len(ranked) = Len(input)
    /\ \E p \in [1..Len(ranked) -> 1..Len(input)] :
          /\ \A i \in 1..Len(ranked) : ranked[i] = input[p[i]]
          /\ \A i, j \in 1..Len(ranked) : i # j => p[i] # p[j]

\* C11: ranking completeness.  The ranking of a comparison that has
\* returned is a permutation of its candidates: there is one entry for
\* every candidate submitted, the ones whose run failed included, and every
\* entry appears exactly once in the ranked list.  compare_models does not
\* do that: it ranks only the entries without an error, so a model whose
\* run raised is in model_comparison but not in ranked_models.
C11_RankingComplete ==
    (pc = "done" /\ op \in CompareOps) =>
        /\ Len(entries) = Len(cands)
        /\ Permutation(Ranking, entries)

(***************************************************************************)
(* The properties of the errors of a suite run.                            *)
(***************************************************************************)
\* A suite run whose backend is not configured: there is no credential, or
\* the identifier of the backend is not that of a known backend
ConfigError(mdl) == ~api_key \/ mdl # "claude"

\* The score 0 of a result, an integer in run_tests and a float in
\* run_jsonl_tests
ZeroScore(o, r) == IF o = "run_tests" THEN r.score = 0 ELSE r.score = FZero

\* C12: configuration errors are absorbed per test.  In a suite run without
\* a credential or with the identifier of an unknown backend, no exception
\* leaves the loop of the runner and every test is recorded as a failed
\* result, with passed = false and score 0.  A missing credential is
\* absorbed so; an unknown backend is not an error at all: its tests are
\* scored on the output "Model not implemented", and may pass.
C12_ConfigErrorsAbsorbed ==
    (op \in SuiteOps /\ ConfigError(model)) =>
        /\ pc = "raised" => results = <<>>
        /\ \A i \in 1..Len(results) :
              /\ results[i].passed = FALSE
              /\ ZeroScore(op, results[i])

(***************************************************************************)
(* The properties of the model backend adapters.                           *)
(***************************************************************************)
\* A call of the completion operation of an adapter that is over
Completed == adapter.call \in {"generate_prompt_llm", "run"}

\* C13: the model backend adapter never raises.  Every call of the
\* completion operation returns, a completion or a typed failure value,
\* whether the provider fails, the credential is missing or the backend is
\* not a registered one.  Neither adapter does that: generate_prompt_llm
\* raises an Exception for each of the three, and PromptRunner.run lets the
\* error of the provider propagate and raises ValueError for a model it
\* does not know or has no client for.
C13_AdapterNeverRaises ==
    Completed => adapter.outcome.kind = "returned"

\* The judge is called for result r of a suite run, and its call fails
JudgeFailed(o, r) ==
    /\ ~IsError(r)
    /\ IF o = "run_tests" THEN ~api_key \/ MockJudge(r.actual).raises
       ELSE /\ r.quality_criteria # ""
            /\ ~api_key \/ MockJudge(r.actual_output).raises

\* C14: judge-call failure degradation.  When the call of the judge fails
\* while a test is scored, the result of the test has score 0 and
\* passed = false, with the error in its explanation, whatever the expected
\* keywords and the output are, and no exception leaves the suite run.
\* run_tests does that.  run_jsonl_tests does not: the failed judge counts
\* as a quality score of 0, the keyword score still adds its 30%, and the
\* explanation is that of the keyword match.
C14_JudgeFailureDegrades ==
    op \in SuiteOps =>
        /\ pc = "raised" => results = <<>>
        /\ \A i \in 1..Len(results) :
              JudgeFailed(op, results[i]) =>
                  /\ results[i].passed = FALSE
                  /\ ZeroScore(op, results[i])
                  /\ results[i].explanation = "Error during evaluation"

\* The judge has replied to the question about an output, and its reply
\* has no score that parses
Unparseable(output) ==
    api_key /\ ~MockJudge(output).raises /\ ~MockJudge(output).hasScore

\* C15: unparseable judge output degrades to the documented default.  When
\* the reply of the judge has no score that parses, scoring raises nothing
\* and the score is the default of a failed judge: score 0, passed = false.
\* Nothing is raised, but the default of the code is another one: the score
\* is 5 in _judge_output and in judge_prompt_output, and _judge_output takes
\* passed from the Passed line of the reply.
C15_UnparseableDefault ==
    /\ op = "run_tests" =>
          \A i \in 1..Len(results) :
              (~IsError(results[i]) /\ Unparseable(results[i].actual)) =>
                  results[i].score = 0 /\ results[i].passed = FALSE
    /\ (adapter.call = "judge_prompt_output" /\ Unparseable(adapter.output)) =>
          /\ adapter.outcome.kind = "returned"
          /\ adapter.outcome.value.score = 0
          /\ adapter.outcome.value.passed = FALSE

\* The test file of the run has a line that is not a valid record
HasBadLine == \E i \in 1..Len(jsonl_file) : jsonl_file[i] = BadLine

\* C16: structural errors abort the suite.  A test file that does not
\* parse, a line-delimited test file with a line that is not a valid record
\* included, is a hard failure for the caller: no test of it is run and no
\* summary is made from the records that remain.  run_jsonl_tests does not
\* do that: it prints a warning for the line, leaves it out and runs the
\* other records.
C16_StructuralErrorsAbort ==
    (op = "run_jsonl_tests" /\ HasBadLine) =>
        /\ pc = "raised"
        /\ results = <<>>

(***************************************************************************)
(* The properties of simple scoring.                                       *)
(***************************************************************************)
\* The score of result r, on the scale of 0 to 10, is at least 6.0
AtLeastSix(o, r) ==
    IF o = "run_tests" THEN r.score >= 6 ELSE FLeq(FromInt(6), r.score)

\* C17: the pass threshold of simple scoring.  Every result that scoring
\* produced, by the judge in run_tests or from keywords and quality in
\* run_jsonl_tests, has passed = true exactly when its score is >= 6.0.
\* The keyword and quality path does that.  The judge path does not: below
\* 6 it takes passed from the Passed line of the reply of the judge, so a
\* result of score 5 may have passed = true.
C17_SimplePassThreshold ==
    op \in SuiteOps =>
        \A i \in 1..Len(results) :
            ~IsError(results[i]) =>
                (results[i].passed <=> AtLeastSix(op, results[i]))

\* x and y are the same but for the rounding of the arithmetic: they differ
\* by less than 2^-30
Near(x, y) == LET d == FSub(x, y) IN d.s = 0 \/ d.e < -30

\* The keyword score of result r: the share of its expected keywords that
\* matched
KeywordScoreOf(r) == Ratio(Len(r.keyword_matches), Len(r.expected_keywords))

\* The quality score of result r, on the scale of 0 to 10: the score of the
\* judge for its output
QualityScoreOf(r) == FromInt(JudgeOutput(r.actual_output).score)

\* C18: score combination.  The score of a test with expected keywords and
\* quality criteria is 0.3 * keyword_score * 10 + 0.7 * quality_score, with
\* quality on the scale of 0 to 10; the score of a test with one of the two
\* is the score of that criterion alone, keyword_score * 10 or the quality
\* score.  The code weighs the two in every case and takes the keyword
\* score of a test without keywords to be 1.0: a test with quality criteria
\* alone scores 0.7 * quality_score + 3.
C18_ScoreCombination ==
    op = "run_jsonl_tests" =>
        \A i \in 1..Len(results) :
            LET r == results[i]
            IN  ~IsError(r) =>
                    /\ (r.expected_keywords # <<>> /\ r.quality_criteria # "") =>
                          Near(r.score,
                               FAdd(FMul(FMul(F03, KeywordScoreOf(r)), F10),
                                    FMul(F07, QualityScoreOf(r))))
                    /\ (r.expected_keywords # <<>> /\ r.quality_criteria = "") =>
                          Near(r.score, FMul(KeywordScoreOf(r), F10))
                    /\ (r.expected_keywords = <<>> /\ r.quality_criteria # "") =>
                          Near(r.score, QualityScoreOf(r))

\* Test case t has no success criteria
NoCriteria(t) == t.expected_keywords = <<>> /\ t.quality_criteria = ""

\* C19: the neutral default.  A test case without expected keywords and
\* without quality criteria whose output is not empty gets the score 8.0
\* and passes.  It passes, but with another score: _evaluate_jsonl_output
\* gives it 10.0, the full keyword score standing in for both criteria, and
\* _score_output starts from 8.0 and adds 0.5 for the output and a random
\* value.
C19_NeutralDefault ==
    /\ op = "run_jsonl_tests" =>
          \A i \in 1..Len(results) :
              (/\ ~IsError(results[i])
               /\ NoCriteria(tests[i])
               /\ OutputText(results[i].actual_output) # <<>>) =>
                  /\ results[i].score = FromInt(8)
                  /\ results[i].passed
    /\ op = "evaluate_jsonl_tests" =>
          \A i \in 1..Len(results) :
              (NoCriteria(tests[i]) /\ ResponseLen(results[i].output) > 0) =>
                  /\ results[i].score = FromInt(8)
                  /\ results[i].passed

\* Characters a and b are the same letter, whatever their case
SameLetter(a, b) ==
    \/ a = b
    \/ {a, b} \in {{"H", "h"}, {"I", "i"}, {"Y", "y"}, {"O", "o"}}

\* Keyword k occurs in text, compared without regard to case
Occurs(k, text) ==
    \E i \in 0..(Len(text) - Len(k)) :
        \A j \in 1..Len(k) : SameLetter(text[i + j], k[j])

\* C20: the keyword score.  For every output and every list of expected
\* keywords, the matched keywords are the expected keywords that occur in
\* the output, compared without regard to case, and keyword_score is their
\* number divided by the number of expected keywords; it lies in [0, 1],
\* and it is exactly 1.0 when no keyword is expected.
C20_KeywordScore ==
    op = "run_jsonl_tests" =>
        \A i \in 1..Len(results) :
            ~IsError(results[i]) =>
                LET r          == results[i]
                    evaluation == EvaluateJsonlOutput(r.actual_output,
                                                      r.expected_keywords,
                                                      r.quality_criteria)
                    matched    ==
                        SelectSeq(r.expected_keywords,
                                  LAMBDA k :
                                      Occurs(k, OutputText(r.actual_output)))
                IN  /\ r.keyword_matches = matched
                    /\ evaluation.keyword_matches = matched
                    /\ FLeq(FZero, evaluation.keyword_score)
                    /\ FLeq(evaluation.keyword_score, FromInt(1))
                    /\ IF r.expected_keywords = <<>>
                       THEN evaluation.keyword_score = FromInt(1)
                       ELSE IsQuotient(evaluation.keyword_score, Len(matched),
                                       Len(r.expected_keywords))

\* C20, its case: a run has scored a test of which one of two keywords
\* occurs in the output, in another case, and a test without keywords
C20_Witness ==
    /\ op = "run_jsonl_tests"
    /\ pc = "done"
    /\ tests = <<T3, T2>>
    /\ ~IsError(results[1])
    /\ results[1].keyword_matches = <<<<"Y", "O">>>>
    /\ OutputText(results[1].actual_output) = <<"y", "o">>
    /\ results[1].score = FromInt(5)
    /\ results[2].keyword_matches = <<>>
    /\ results[2].score = FromInt(10)

(***************************************************************************)
(* The properties of the renderers.                                        *)
(***************************************************************************)
\* The placeholder the renderer of the call looks for
PlaceholderOf(key) ==
    IF rendering.call = "testgen.run_tests" THEN PlaceholderTight(key)
    ELSE Placeholder(key)

\* The keys of a variable map
KeysOf(items) == {items[i][1] : i \in 1..Len(items)}

\* The items of the call whose placeholder occurs in the template
ItemsOfTemplate ==
    SelectSeq(rendering.items,
              LAMBDA item : Contains(rendering.template,
                                     PlaceholderOf(item[1])))

\* C21: render tolerance.  Rendering raises for no missing and no extra
\* variable: a placeholder whose key is not in the variable map is in the
\* output as it is in the template, a key whose placeholder does not occur
\* in the template changes nothing, and render(t, {}) = t.  The second
\* fails when the value of another key brings the placeholder in: the loop
\* substitutes in what it has substituted (C25).
C21_RenderTolerance ==
    rendering.call # "none" =>
        /\ \A key \in {<<"x">>, <<"y">>, <<"z">>} :
              (/\ key \notin KeysOf(rendering.items)
               /\ Contains(rendering.template, PlaceholderOf(key))) =>
                  Contains(rendering.output, PlaceholderOf(key))
        /\ rendering.output =
               RenderBy(rendering.call, rendering.template, ItemsOfTemplate)
        /\ rendering.items = <<>> => rendering.output = rendering.template

\* The placeholder of key with n blanks on either side of the key
Spaced(key, n) ==
    <<"{", "{">> \o [i \in 1..n |-> " "] \o key \o [i \in 1..n |-> " "]
        \o <<"}", "}">>

\* No value of the variable map has a brace in it
PlainValues ==
    \A i \in 1..Len(rendering.items) :
        ~Contains(Str(rendering.items[i][2]), <<"{">>)

\* C22: render whitespace tolerance.  Every placeholder of a key of the
\* variable map is replaced, whatever the blanks between the delimiters and
\* the key ({{key}}, {{ key }}, {{  key  }}), and all the renderers give the
\* same output.  The renderers replace one spelling only: "{{ key }}" in
\* _render_prompt, evaluator.run_tests and PromptRunner.run, "{{key}}" in
\* testgen.run_tests.
C22_RenderWhitespace ==
    rendering.call # "none" =>
        /\ PlainValues =>
              \A key \in KeysOf(rendering.items), n \in 0..2 :
                  ~Contains(rendering.output, Spaced(key, n))
        /\ \A r \in Renderers :
              rendering.output =
                  RenderBy(r, rendering.template, rendering.items)

\* The items of a variable map in the other order
Reversed(items) == [i \in 1..Len(items) |-> items[Len(items) + 1 - i]]

\* The items whose placeholder is at the head of str
AtHead(str, items) ==
    SelectSeq(items,
              LAMBDA item :
                  /\ Len(PlaceholderOf(item[1])) <= Len(str)
                  /\ SubSeq(str, 1, Len(PlaceholderOf(item[1])))
                         = PlaceholderOf(item[1]))

\* The template with every placeholder replaced at once: what is inserted
\* is not looked at again
RECURSIVE AtOnce(_, _)
AtOnce(str, items) ==
    IF str = <<>> THEN <<>>
    ELSE IF AtHead(str, items) # <<>>
         THEN Str(AtHead(str, items)[1][2])
                  \o AtOnce(SubSeq(str,
                                   Len(PlaceholderOf(AtHead(str, items)[1][1]))
                                       + 1,
                                   Len(str)),
                            items)
         ELSE <<Head(str)>> \o AtOnce(Tail(str), items)

\* C25: render order independence.  The rendered prompt is the same
\* whatever the order in which the variables of the map are substituted,
\* and a value that has the placeholder of another key in it is inserted as
\* it is, not substituted again.  The renderers substitute key after key in
\* the text rendered so far, so a value inserted for one key is substituted
\* in when the other key comes later in the map, and not when it comes
\* earlier.
C25_RenderOrderIndependence ==
    rendering.call # "none" =>
        /\ rendering.output =
               RenderBy(rendering.call, rendering.template,
                        Reversed(rendering.items))
        /\ rendering.output = AtOnce(rendering.template, rendering.items)

(***************************************************************************)
(* The properties of the performance tests.                                *)
(***************************************************************************)
PerfDone == perf.call = "_run_performance_tests" /\ perf.pc = "done"

\* every run returned a text, and the texts have one length
IdenticalLengths(outputs) ==
    /\ outputs # <<>>
    /\ \A i \in 1..Len(outputs) :
          ~outputs[i].error /\ outputs[i].len = outputs[1].len

\* C23: stability scoring: the consistency score of a performance test is
\* 1.0 when all its runs returned texts of identical length, 1.0 when
\* there are fewer than two outputs, and between 0.0 and 1.0 always
C23_StabilityScoring ==
    PerfDone =>
        /\ IdenticalLengths(perf.outputs) => perf.consistency_score = F1
        /\ Len(perf.outputs) < 2 => perf.consistency_score = F1
        /\ FLeq(FZero, perf.consistency_score)
        /\ FLeq(perf.consistency_score, F1)

\* every run of the test failed or appended nothing
AllFailed(outputs) == \A i \in 1..Len(outputs) : outputs[i].error

\* C28: the consistency score of a performance test of at least one run
\* whose runs all ended in an error, or appended no output, is 0.0
C28_AllFailedConsistency ==
    PerfDone /\ perf.runs >= 1 /\ AllFailed(perf.outputs)
        => perf.consistency_score = FZero

(***************************************************************************)
(* The properties of successive evaluations.                               *)
(***************************************************************************)
\* the model PromptEvaluator() is constructed with
ConstructedModel == "claude"

\* the model an evaluation called with the argument mdl is to use, earlier
\* calls left aside
ModelOfCall(mdl) == IF mdl # "None" THEN mdl ELSE ConstructedModel

\* C24: no hidden state between suite runs: the report of an evaluation
\* names the model of that call, the call's model argument or, without one,
\* the evaluator's own, whatever the earlier calls on the evaluator were
C24_NoHiddenState ==
    op = "evaluate_jsonl_tests" /\ pc = "done"
        => /\ report.model = ModelOfCall(model)
           /\ report.summary.model_used = ModelOfCall(model)

(***************************************************************************)
(* The properties of the RunResultsManager.                                *)
(***************************************************************************)
\* the step is a call of one of these methods made while no run is active
CalledWithoutRun(methods) ==
    /\ manager.current_run = NoRun
    /\ manager' # manager
    /\ manager'.call \in methods

\* C26: run-results lifecycle: record_prompt_result and complete_run raise
\* ValueError when no run is active and leave the manager as it was;
\* start_run makes a run active; a complete_run that returns returns the
\* run that was active and leaves none active.  So a second complete_run,
\* or a record_prompt_result after complete_run, raises.
C26_RunLifecycle ==
    [][/\ CalledWithoutRun({"record_prompt_result", "complete_run"})
          => /\ manager'.outcome = "ValueError"
             /\ ManagerState(manager') = ManagerState(manager)
       /\ manager'.call = "start_run" /\ manager' # manager
          => manager'.current_run # NoRun
       /\ (/\ manager'.call = "complete_run"
           /\ manager'.outcome = "returned"
           /\ manager' # manager)
          => /\ manager.current_run # NoRun
             /\ manager'.returned = manager.current_run
             /\ manager'.current_run = NoRun]_vars

\* a second complete_run has raised, after one that returned its run
C26_Witness ==
    /\ manager.call = "complete_run"
    /\ manager.outcome = "ValueError"
    /\ manager.latest # 0
    /\ manager.current_run = NoRun

FailingResults(run) ==
    {i \in 1..Len(run.results) : FailsRun(run.results[i].status)}

\* earlier is the beginning of later
IsPrefix(earlier, later) ==
    /\ Len(earlier) <= Len(later)
    /\ \A i \in 1..Len(earlier) : later[i] = earlier[i]

\* C27: run success flag: during a run, success is false exactly when a
\* result of status error or warn has been recorded in the run; no later
\* result sets it back to true; and the results stay in the order of their
\* recording
C27_SuccessFlag ==
    [][/\ manager'.current_run # NoRun
          => (manager'.current_run.success
                 <=> FailingResults(manager'.current_run) = {})
       /\ (/\ manager.current_run # NoRun
           /\ manager'.current_run # NoRun
           /\ manager'.current_run.run_id = manager.current_run.run_id)
          => /\ ~manager.current_run.success
                   => ~manager'.current_run.success
             /\ IsPrefix(manager.current_run.results,
                         manager'.current_run.results)]_vars

\* a run whose first result is an error and whose last is a success
C27_Witness ==
    /\ manager.current_run # NoRun
    /\ Len(manager.current_run.results) = MaxRecorded
    /\ manager.current_run.results[1].status = "error"
    /\ manager.current_run.results[MaxRecorded].status = "success"
    /\ ~manager.current_run.success

(***************************************************************************)
(* The properties of the PromptDAG.                                        *)
(***************************************************************************)
\* the name a dependency declares: the one in ref(...), or the bare name
DeclaredName(dep) ==
    IF HasPrefix(dep, <<"r", "e", "f", "(">>) THEN DepName(dep) ELSE dep

\* prompt p declares the dependency d
Declares(p, d) ==
    \E i \in 1..Len(dag.nodes) :
       /\ dag.nodes[i].name = p
       /\ \E j \in 1..Len(dag.nodes[i].depends_on) :
             DeclaredName(dag.nodes[i].depends_on[j]) = d

LoadedNames == {dag.nodes[i].name : i \in 1..Len(dag.nodes)}

\* the declared dependencies lead from p back to p
RECURSIVE Reaches(_, _, _)
Reaches(p, q, n) ==
    \/ Declares(p, q)
    \/ n > 0 /\ \E r \in LoadedNames : Declares(p, r) /\ Reaches(r, q, n - 1)

DeclaredCycle == \E p \in LoadedNames : Reaches(p, p, MaxFiles)

\* x comes before y in the sequence
Before(x, y, seq) ==
    \E i, j \in 1..Len(seq) : i < j /\ seq[i] = x /\ seq[j] = y

\* C29: dependency order: after load_prompts has succeeded every declared
\* dependency of a loaded prompt comes before the prompt in the execution
\* order, every name of the execution order is a loaded prompt, and
\* load_prompts raises when the declared dependencies form a cycle
C29_DependencyOrder ==
    /\ dag.pc = "ordered"
       => /\ \A p \in LoadedNames :
                \A d \in {<<"a">>, <<"b">>, <<"c">>, <<"x">>} :
                   Declares(p, d) => Before(d, p, dag.execution_order)
          /\ \A i \in 1..Len(dag.execution_order) :
                dag.execution_order[i] \in LoadedNames
    /\ dag.pc \in {"loaded", "ordered"} => ~DeclaredCycle

(***************************************************************************)
(* The properties of the SnapshotManager.                                  *)
(***************************************************************************)
Min(a, b) == IF a < b THEN a ELSE b

\* the step is a call of cleanup_old_snapshots
CleanedUp == snaps'.call = "cleanup_old_snapshots" /\ snaps' # snaps

\* the number of snapshots the step removed
RECURSIVE Removed(_)
Removed(prompts) ==
    IF prompts = {} THEN 0
    ELSE Cardinality(snaps.dirs[CHOOSE p \in prompts : TRUE]
                     \ snaps'.dirs[CHOOSE p \in prompts : TRUE])
         + Removed(prompts \ {CHOOSE p \in prompts : TRUE})

\* C30: snapshot retention: cleanup_old_snapshots(keep_last) leaves each
\* prompt min(n, keep_last) of the n snapshots it had, the most recent
\* ones by timestamp, and returns the number of snapshots it removed
C30_SnapshotRetention ==
    [][CleanedUp
          => /\ \A p \in SnapshotPrompts :
                   /\ snaps'.dirs[p] \subseteq snaps.dirs[p]
                   /\ Cardinality(snaps'.dirs[p])
                          = Min(Cardinality(snaps.dirs[p]), snaps'.keep_last)
                   /\ \A kept \in snaps'.dirs[p] :
                         \A gone \in snaps.dirs[p] \ snaps'.dirs[p] :
                            Later(gone, kept)
             /\ snaps'.removed_count = Removed(SnapshotPrompts)]_vars

====
